---- MODULE Spec2Model ----
(***************************************************************************)
(* State-machine model of the test-lifecycle lambdas:                      *)
(*   src/lambda/shutdown.py           teardown handler, metric listing,    *)
(*                                    log export to S3                     *)
(*                                    and metric export to S3              *)
(*   src/lambda/schedule_shutdown.py  shutdown scheduler                   *)
(*   src/lambda/verify_shutdown.py    shutdown verifier                    *)
(* Every external service call (ECS, ElastiCache, CloudWatch, Logs, S3,    *)
(* EventBridge, SES) either returns or raises; the choice is made by the   *)
(* environment and is drawn with \E in the action that issues the call.    *)
(***************************************************************************)
EXTENDS Integers, Sequences, FiniteSets, TLC

VARIABLES
    \* ---- export_logs_to_s3 (shutdown.py:389-488): locals --------------
    log_group,      \* "" when the source is not configured
    buffer,         \* bytearray, as the sequence of lines it holds
    upload_id,      \* 0 is None, otherwise the id of the created upload
    parts,          \* [{"ETag", "PartNumber"}]
    part_number,
    next_token,
    response,       \* the page being iterated
    ev_i,           \* position of the for-loop in response['events']
    lpc,            \* position in export_logs_to_s3
    log_ret,        \* "pending", "None", "uri" or "raise"
    \* ---- the log backend and the object store, and what happened ------
    received,       \* every event the backend has returned, in order
    s3,             \* the object store's view of this key
    calls,          \* the storage calls issued so far, in order
    lh,             \* history of the export (failures seen)
    \* ---- _list_metrics (shutdown.py:34-61) ----------------------------
    lm_pc,          \* position in _list_metrics
    lm_token,
    lm_metrics,     \* the list being built
    lm_response,    \* the page being read
    lm_filter,      \* metric_name_filter; {} is None
    lm_seen,        \* metrics the backend has listed so far (saturating)
    \* ---- teardown handler (shutdown.py:64-191) ------------------------
    hpc, results, hcalls, hcfg, hh,
    \* ---- scheduler handler (schedule_shutdown.py:85-152) --------------
    now,            \* the wall clock, a UTC datetime
    rules,          \* ScheduleExpression of the shutdown and the verify rule
    scfg,           \* the scheduler's environment variables
    sched,          \* the last scheduler invocation: what it saw and did
    sh,             \* history: clock ticks, the shutdown time last armed
    \* ---- export_metric_sources_to_s3 (shutdown.py:265-386) ------------
    mpc,            \* position in the export
    sources,        \* the list of {namespace, dimensions} to discover through
    src_i,          \* position of the for-loop over sources
    metric_map,     \* the dict, as its items in insertion order
    map_i,          \* position of the for-loop over metric_map.items()
    csv_rows,       \* rows written to csv_buffer after the header row
    mcalls,         \* the service calls issued so far, in order
    m_ret,          \* "pending", "uri" or "raise"
    \* ---- verifier handler (verify_shutdown.py:80-124) ------------------
    vpc, vcfg, vres, vcalls,
    \* ---- _cron_at and _parse_cron_expression applied to one input ------
    cpc, c_in, c_out

logvars == <<log_group, buffer, upload_id, parts, part_number, next_token,
             response, ev_i, lpc, log_ret, received, s3, calls, lh>>
lmvars == <<lm_pc, lm_token, lm_metrics, lm_response, lm_filter, lm_seen>>
hvars == <<hpc, results, hcalls, hcfg, hh>>
svars == <<now, rules, scfg, sched, sh>>
mvars == <<mpc, sources, src_i, metric_map, map_i, csv_rows, mcalls, m_ret>>
vvars == <<vpc, vcfg, vres, vcalls>>
cvars == <<cpc, c_in, c_out>>
vars == <<logvars, lmvars, hvars, svars, mvars, vvars, cvars>>

----------------------------------------------------------------------------
(* Bounds of the model.                                                    *)

\* events the log backend holds in the export window
MaxEvents == 4
\* metrics the metric backend lists for one filter
MaxMetrics == 2
\* the clock advances MaxTicks times by TickSeconds seconds
MaxTicks == 6
TickSeconds == 30
\* TEST_DURATION_MINUTES ranges over 0..MaxDuration
MaxDuration == 3
\* metrics listed for all the sources of one metric export
MaxListed == 2

(* Program constants.  Sizes are counted in units of one short line; the   *)
(* part size keeps its role (several lines fit in a part, one line never   *)
(* fills a part on its own).                                               *)
LOG_EXPORT_PART_SIZE == 3

\* size of one formatted event line, in the same unit
EventSizes == {1, 2}
\* response['events'] of one page
EventPages == UNION {[1..n -> EventSizes] : n \in 0..2}
\* pagination tokens; NoToken is an absent or empty token (falsy in Python)
NoToken == "none"
Tokens == {"t1", "t2"}

Header == [k |-> "hdr", id |-> 0, sz |-> 1]
Diag == [k |-> "diag", id |-> 0, sz |-> 1]
EventLine(id, sz) == [k |-> "ev", id |-> id, sz |-> sz]

RECURSIVE BufLen(_)
BufLen(buf) == IF buf = <<>> THEN 0 ELSE Head(buf).sz + BufLen(Tail(buf))

Larger(a, b) == IF a >= b THEN a ELSE b

RECURSIVE Concat(_)
Concat(ss) == IF ss = <<>> THEN <<>> ELSE Head(ss) \o Concat(Tail(ss))

\* lines of the events received[from..to]
RECURSIVE EventLines(_, _, _)
EventLines(rc, from, to) ==
    IF from > to THEN <<>>
    ELSE <<EventLine(from, rc[from])>> \o EventLines(rc, from + 1, to)

----------------------------------------------------------------------------
(* export_logs_to_s3: the nested helpers, as functions of the closure's    *)
(* variables (a frame) and of the outcome of each storage call.            *)

Frame == [buffer |-> buffer, upload_id |-> upload_id, parts |-> parts,
          part_number |-> part_number, s3 |-> s3, calls |-> calls,
          raised |-> FALSE]

Call(op, ok) == [op |-> op, ok |-> ok]

StartMultipart(f, createOk) ==
    IF f.upload_id # 0 THEN f
    ELSE IF createOk
         THEN [f EXCEPT !.upload_id = 1,
                        !.s3 = [@ EXCEPT !.upload = "open"],
                        !.calls = Append(@, Call("create_multipart_upload", TRUE))]
         ELSE [f EXCEPT !.raised = TRUE,
                        !.calls = Append(@, Call("create_multipart_upload", FALSE))]

\* _upload_part without the increment of part_number
UploadPartKeepsNumber(f, data, createOk, partOk) ==
    LET g == StartMultipart(f, createOk) IN
    IF g.raised THEN g
    ELSE IF partOk
         THEN [g EXCEPT !.s3 = [@ EXCEPT !.partBodies =
                                  Append(@, [PartNumber |-> g.part_number, Body |-> data])],
                        !.calls = Append(@, Call("upload_part", TRUE)),
                        !.parts = Append(@, [ETag |-> g.part_number,
                                             PartNumber |-> g.part_number])]
         ELSE [g EXCEPT !.raised = TRUE,
                        !.calls = Append(@, Call("upload_part", FALSE))]

\* shutdown.py:413-424
UploadPart(f, data, createOk, partOk) ==
    LET g == StartMultipart(f, createOk) IN
    IF g.raised THEN g
    ELSE IF partOk
         THEN [g EXCEPT !.s3 = [@ EXCEPT !.partBodies =
                                  Append(@, [PartNumber |-> g.part_number, Body |-> data])],
                        !.calls = Append(@, Call("upload_part", TRUE)),
                        !.parts = Append(@, [ETag |-> g.part_number,
                                             PartNumber |-> g.part_number]),
                        !.part_number = @ + 1]
         ELSE [g EXCEPT !.raised = TRUE,
                        !.calls = Append(@, Call("upload_part", FALSE))]

\* _flush with the size test inverted: an unforced flush never uploads
FlushNeverInLoop(f, force, createOk, partOk) ==
    IF f.buffer = <<>> THEN f
    ELSE IF ~force THEN f
    ELSE LET g == UploadPart(f, f.buffer, createOk, partOk) IN
         IF g.raised THEN g ELSE [g EXCEPT !.buffer = <<>>]

\* _flush that uploads the buffer and keeps it
FlushKeepsBuffer(f, force, createOk, partOk) ==
    IF f.buffer = <<>> THEN f
    ELSE IF BufLen(f.buffer) < LOG_EXPORT_PART_SIZE /\ ~force THEN f
    ELSE UploadPart(f, f.buffer, createOk, partOk)

\* shutdown.py:426-433
Flush(f, force, createOk, partOk) ==
    IF f.buffer = <<>> THEN f
    ELSE IF BufLen(f.buffer) < LOG_EXPORT_PART_SIZE /\ ~force THEN f
    ELSE LET g == UploadPart(f, f.buffer, createOk, partOk) IN
         IF g.raised THEN g ELSE [g EXCEPT !.buffer = <<>>]

SetFrame(f) ==
    /\ buffer' = f.buffer
    /\ upload_id' = f.upload_id
    /\ parts' = f.parts
    /\ part_number' = f.part_number
    /\ s3' = f.s3
    /\ calls' = f.calls

\* the except clause without the diagnostic line
CaughtSilently(f, what) ==
    /\ SetFrame(f)
    /\ lh' = [lh EXCEPT !.caught = what,
                        !.openAtFailure = (f.upload_id # 0),
                        !.reached = @ \/ what = "storage",
                        !.peak = Larger(@, BufLen(f.buffer))]
    /\ lpc' = "final"

\* the except clause of the pagination loop (shutdown.py:463-465)
Caught(f, what) ==
    /\ SetFrame([f EXCEPT !.buffer = Append(@, Diag)])
    /\ lh' = [lh EXCEPT !.caught = what,
                        !.openAtFailure = (f.upload_id # 0),
                        !.reached = @ \/ what = "storage",
                        !.peak = Larger(@, BufLen(f.buffer))]
    /\ lpc' = "final"

LogIdle ==
    /\ log_group = "" /\ buffer = <<>> /\ upload_id = 0 /\ parts = <<>>
    /\ part_number = 1 /\ next_token = NoToken
    /\ response = [events |-> <<>>, nextToken |-> NoToken] /\ ev_i = 1
    /\ lpc = "idle" /\ log_ret = "pending" /\ received = <<>>
    /\ s3 = [upload |-> "none", partBodies |-> <<>>, completedWith |-> <<>>,
             objects |-> <<>>]
    /\ calls = <<>>
    /\ lh = [caught |-> "none", openAtFailure |-> FALSE, reached |-> FALSE,
             pages |-> 0, stopped |-> "no", peak |-> 0]

\* export_logs_to_s3 without the test of its log group (shutdown.py:392-393)
LogEnterQueriesEmptyGroup ==
    /\ lpc = "start"
    /\ lpc' = "query"
    /\ buffer' = <<Header>>
    /\ UNCHANGED <<log_group, upload_id, parts, part_number, next_token, response,
                   ev_i, received, s3, calls, lh, log_ret>>
    /\ UNCHANGED <<lmvars, hvars, svars, mvars, vvars, cvars>>

\* shutdown.py:392-401, 435-437
LogEnter ==
    /\ lpc = "start"
    /\ IF log_group = ""
       THEN /\ lpc' = "returned"
            /\ log_ret' = "None"
            /\ UNCHANGED <<buffer>>
       ELSE /\ lpc' = "query"
            /\ buffer' = <<Header>>
            /\ UNCHANGED log_ret
    /\ UNCHANGED <<log_group, upload_id, parts, part_number, next_token, response,
                   ev_i, received, s3, calls, lh>>
    /\ UNCHANGED <<lmvars, hvars, svars, mvars, vvars, cvars>>

\* shutdown.py:440-449: one filter_log_events call
FilterLogEvents ==
    /\ lpc = "query"
    /\ \/ \E evs \in EventPages, tok \in Tokens \cup {NoToken} :
            /\ Len(received) + Len(evs) <= MaxEvents
            /\ response' = [events |-> evs, nextToken |-> tok]
            /\ received' = received \o evs
            /\ ev_i' = 1
            /\ lpc' = "events"
            /\ lh' = [lh EXCEPT !.pages = IF @ < 2 THEN @ + 1 ELSE @]
            /\ UNCHANGED <<buffer, upload_id, parts, part_number, s3, calls>>
       \/ /\ Caught(Frame, "query")
          /\ UNCHANGED <<response, received, ev_i>>
    /\ UNCHANGED <<log_group, next_token, log_ret>>
    /\ UNCHANGED <<lmvars, hvars, svars, mvars, vvars, cvars>>

\* shutdown.py:450-457: one iteration of the for-loop over the page's events
ProcessEvent ==
    /\ lpc = "events"
    /\ ev_i <= Len(response.events)
    /\ LET id == Len(received) - Len(response.events) + ev_i
           line == EventLine(id, response.events[ev_i])
           f == [Frame EXCEPT !.buffer = Append(@, line)]
       IN IF BufLen(f.buffer) >= LOG_EXPORT_PART_SIZE
          THEN \E createOk, partOk \in BOOLEAN :
                 LET g == Flush(f, FALSE, createOk, partOk) IN
                 IF g.raised
                 THEN /\ Caught(g, "storage")
                      /\ UNCHANGED ev_i
                 ELSE /\ SetFrame(g)
                      /\ ev_i' = ev_i + 1
                      /\ lh' = [lh EXCEPT !.reached = TRUE,
                                          !.peak = Larger(@, BufLen(f.buffer))]
                      /\ UNCHANGED lpc
          ELSE /\ SetFrame(f)
               /\ ev_i' = ev_i + 1
               /\ lh' = [lh EXCEPT !.peak = Larger(@, BufLen(f.buffer))]
               /\ UNCHANGED lpc
    /\ UNCHANGED <<log_group, next_token, response, log_ret, received>>
    /\ UNCHANGED <<lmvars, hvars, svars, mvars, vvars, cvars>>

\* the exit test without the guard against a repeated token
BreaksOnEmptyTokenOnly(token, sent) == token = NoToken

\* the loop exit test (shutdown.py:460)
LogLoopBreaks(token, sent) == token = NoToken \/ token = sent

\* shutdown.py:459-462
CheckToken ==
    /\ lpc = "events"
    /\ ev_i > Len(response.events)
    /\ LET token == response.nextToken IN
       IF LogLoopBreaks(token, next_token)
       THEN /\ lpc' = "final"
            /\ lh' = [lh EXCEPT !.stopped = IF token = NoToken THEN "empty" ELSE "same"]
            /\ UNCHANGED next_token
       ELSE /\ next_token' = token
            /\ lpc' = "query"
            /\ UNCHANGED lh
    /\ UNCHANGED <<log_group, buffer, upload_id, parts, part_number, response, ev_i,
                   log_ret, received, s3, calls>>
    /\ UNCHANGED <<lmvars, hvars, svars, mvars, vvars, cvars>>

\* the forced flush outside the try block: its failure propagates unaborted
FinalFlushUnguarded ==
    /\ lpc = "final"
    /\ upload_id # 0
    /\ \E partOk \in BOOLEAN :
         LET g == Flush(Frame, TRUE, TRUE, partOk) IN
         /\ SetFrame([g EXCEPT !.raised = FALSE])
         /\ lpc' = IF g.raised THEN "raised" ELSE "complete"
         /\ log_ret' = IF g.raised THEN "raise" ELSE log_ret
    /\ UNCHANGED <<log_group, next_token, response, ev_i, received, lh>>
    /\ UNCHANGED <<lmvars, hvars, svars, mvars, vvars, cvars>>

\* shutdown.py:467-469: the forced flush of the chunked path
FinalFlush ==
    /\ lpc = "final"
    /\ upload_id # 0
    /\ \E partOk \in BOOLEAN :
         LET g == Flush(Frame, TRUE, TRUE, partOk) IN
         /\ SetFrame([g EXCEPT !.raised = FALSE])
         /\ lpc' = IF g.raised THEN "abort" ELSE "complete"
    /\ UNCHANGED <<log_group, next_token, response, ev_i, log_ret, received, lh>>
    /\ UNCHANGED <<lmvars, hvars, svars, mvars, vvars, cvars>>

\* complete_multipart_upload aborting on success instead of on failure
CompleteThenAbort ==
    /\ lpc = "complete"
    /\ \E ok \in BOOLEAN :
         /\ calls' = Append(calls, Call("complete_multipart_upload", ok))
         /\ IF ok
            THEN /\ s3' = [s3 EXCEPT !.upload = "completed", !.completedWith = parts]
                 /\ lpc' = "abort"
                 /\ UNCHANGED log_ret
            ELSE /\ lpc' = "raised"
                 /\ log_ret' = "raise"
                 /\ UNCHANGED s3
    /\ UNCHANGED <<log_group, buffer, upload_id, parts, part_number, next_token,
                   response, ev_i, received, lh>>
    /\ UNCHANGED <<lmvars, hvars, svars, mvars, vvars, cvars>>

\* shutdown.py:470-475
CompleteUpload ==
    /\ lpc = "complete"
    /\ \E ok \in BOOLEAN :
         /\ calls' = Append(calls, Call("complete_multipart_upload", ok))
         /\ IF ok
            THEN /\ s3' = [s3 EXCEPT !.upload = "completed", !.completedWith = parts]
                 /\ lpc' = "returned"
                 /\ log_ret' = "uri"
            ELSE /\ lpc' = "abort"
                 /\ UNCHANGED <<s3, log_ret>>
    /\ UNCHANGED <<log_group, buffer, upload_id, parts, part_number, next_token,
                   response, ev_i, received, lh>>
    /\ UNCHANGED <<lmvars, hvars, svars, mvars, vvars, cvars>>

\* shutdown.py:476-478: abort, then re-raise (a failing abort raises as well)
AbortUpload ==
    /\ lpc = "abort"
    /\ \E ok \in BOOLEAN :
         /\ calls' = Append(calls, Call("abort_multipart_upload", ok))
         /\ s3' = IF ok THEN [s3 EXCEPT !.upload = "aborted"] ELSE s3
    /\ lpc' = "raised"
    /\ log_ret' = "raise"
    /\ UNCHANGED <<log_group, buffer, upload_id, parts, part_number, next_token,
                   response, ev_i, received, lh>>
    /\ UNCHANGED <<lmvars, hvars, svars, mvars, vvars, cvars>>

\* shutdown.py:479-485: the whole-object upload
PutObject ==
    /\ lpc = "final"
    /\ upload_id = 0
    /\ \E ok \in BOOLEAN :
         /\ calls' = Append(calls, Call("put_object", ok))
         /\ IF ok
            THEN /\ s3' = [s3 EXCEPT !.objects = Append(@, buffer)]
                 /\ lpc' = "returned"
                 /\ log_ret' = "uri"
            ELSE /\ lpc' = "raised"
                 /\ log_ret' = "raise"
                 /\ UNCHANGED s3
    /\ UNCHANGED <<log_group, buffer, upload_id, parts, part_number, next_token,
                   response, ev_i, received, lh>>
    /\ UNCHANGED <<lmvars, hvars, svars, mvars, vvars, cvars>>

----------------------------------------------------------------------------
(* _list_metrics (shutdown.py:34-61).                                      *)

MetricNames == {"", "m1", "m2"}          \* "" is a metric without a name
DimLists == {<<>>, <<[Name |-> "ReplicationGroupId", Value |-> "rg"]>>}
MetricItems == {[MetricName |-> n, Dimensions |-> d] :
                   n \in MetricNames, d \in DimLists}
\* response['Metrics'] of one page
MetricPages == {<<>>} \cup {<<m>> : m \in MetricItems}

\* shutdown.py:46-55: the metrics of one page that are kept
RECURSIVE Kept(_, _)
Kept(ms, filter) ==
    IF ms = <<>> THEN <<>>
    ELSE LET m == Head(ms) IN
         IF m.MetricName = "" THEN Kept(Tail(ms), filter)
         ELSE IF filter # {} /\ m.MetricName \notin filter THEN Kept(Tail(ms), filter)
         ELSE <<[MetricName |-> m.MetricName, Dimensions |-> m.Dimensions]>>
                \o Kept(Tail(ms), filter)

\* shutdown.py:39-45: one list_metrics call; an exception leaves the function
ListMetricsCall ==
    /\ lm_pc = "call"
    /\ \/ \E ms \in MetricPages, tok \in Tokens \cup {NoToken} :
            /\ lm_seen + Len(ms) <= MaxMetrics
            /\ lm_response' = [Metrics |-> ms, NextToken |-> tok]
            /\ lm_seen' = lm_seen + Len(ms)
            /\ lm_pc' = "page"
       \/ /\ lm_pc' = "raised"
          /\ UNCHANGED <<lm_response, lm_seen>>
    /\ UNCHANGED <<lm_token, lm_metrics, lm_filter>>
    /\ UNCHANGED <<logvars, hvars, svars, mvars, vvars, cvars>>

\* the loop exit test (shutdown.py:58)
ListLoopBreaks(token) == token = NoToken

\* shutdown.py:46-61: read the page, then follow the token or return
ListMetricsPage ==
    /\ lm_pc = "page"
    /\ lm_metrics' = lm_metrics \o Kept(lm_response.Metrics, lm_filter)
    /\ lm_token' = lm_response.NextToken
    /\ lm_pc' = IF ListLoopBreaks(lm_response.NextToken) THEN "done" ELSE "call"
    /\ UNCHANGED <<lm_response, lm_filter, lm_seen>>
    /\ UNCHANGED <<logvars, hvars, svars, mvars, vvars, cvars>>

----------------------------------------------------------------------------
(* Idle values of the components a specification does not run.             *)

ListIdle ==
    /\ lm_pc = "idle" /\ lm_token = NoToken /\ lm_metrics = <<>>
    /\ lm_response = [Metrics |-> <<>>, NextToken |-> NoToken]
    /\ lm_filter = {} /\ lm_seen = 0

HandlerIdle ==
    /\ hpc = "idle" /\ results = <<>> /\ hcalls = <<>> /\ hcfg = <<>> /\ hh = <<>>

SchedIdle ==
    /\ now = <<>> /\ rules = <<>> /\ scfg = <<>> /\ sched = <<>> /\ sh = <<>>

MetricIdle ==
    /\ mpc = "idle" /\ sources = <<>> /\ src_i = 1 /\ metric_map = <<>>
    /\ map_i = 1 /\ csv_rows = <<>> /\ mcalls = <<>> /\ m_ret = "pending"

VerifyIdle ==
    /\ vpc = "idle" /\ vcfg = <<>> /\ vres = <<>> /\ vcalls = <<>>

CronIdle ==
    /\ cpc = "idle" /\ c_in = <<>> /\ c_out = <<>>

----------------------------------------------------------------------------
(* The teardown handler (shutdown.py:64-191).  Python's True, False and    *)
(* None are the strings "True", "False" and "None", so that a result field *)
(* can also hold an error text.                                            *)

LogSources == <<"loadgen", "container_insights", "elasticache",
                "lambda_shutdown_scheduler">>
NotifyConfigs == {"disabled", "bad_arn", "ok"}
HandlerConfigs ==
    [env_ok : BOOLEAN,                      \* the required os.environ[...] exist
     final_snapshot : {"", "snap"},
     log_groups : [1..Len(LogSources) -> {"", "lg"}],
     notify : NotifyConfigs]

\* str(e) of the exception a failed call raises
ErrText(op) == "error: " \o op

\* what one export_logs_to_s3 call hands back to its caller (shutdown.py:392-393,
\* 476-478, 488)
LogOutcomes(lg) == IF lg = "" THEN {"None"} ELSE {"uri", "raise"}

\* the handler running the exports before the teardown actions
HStartExportsFirst ==
    /\ hpc = "start"
    /\ IF hcfg.env_ok
       THEN /\ hpc' = "cache_metrics"
            /\ results' = [metrics_export |-> "None", ecs_metrics_export |-> "None",
                           log_exports |-> <<>>, ecs_stopped |-> "False",
                           elasticache_stopped |-> "False",
                           notification_sent |-> "unset"]
       ELSE /\ hpc' = "raised"
            /\ UNCHANGED results
    /\ UNCHANGED <<hcalls, hcfg, hh>>
    /\ UNCHANGED <<logvars, lmvars, svars, mvars, vvars, cvars>>

\* shutdown.py:73-95
HStart ==
    /\ hpc = "start"
    /\ IF hcfg.env_ok
       THEN /\ hpc' = "ecs_update"
            /\ results' = [metrics_export |-> "None", ecs_metrics_export |-> "None",
                           log_exports |-> <<>>, ecs_stopped |-> "False",
                           elasticache_stopped |-> "False",
                           notification_sent |-> "unset"]
       ELSE /\ hpc' = "raised"
            /\ UNCHANGED results
    /\ UNCHANGED <<hcalls, hcfg, hh>>
    /\ UNCHANGED <<logvars, lmvars, svars, mvars, vvars, cvars>>

\* update_service without its own try/except: a failure leaves the handler
HUpdateServiceUncaught ==
    /\ hpc = "ecs_update"
    /\ \E ok \in BOOLEAN :
         /\ hcalls' = Append(hcalls, [op |-> "ecs.update_service", ok |-> ok,
                                      arg |-> "desiredCount=0"])
         /\ results' = [results EXCEPT !.ecs_stopped = IF ok THEN "True" ELSE @]
         /\ hpc' = IF ok THEN "cache_delete" ELSE "raised"
    /\ UNCHANGED <<hcfg, hh>>
    /\ UNCHANGED <<logvars, lmvars, svars, mvars, vvars, cvars>>

\* shutdown.py:98-108
HUpdateService ==
    /\ hpc = "ecs_update"
    /\ \E ok \in BOOLEAN :
         /\ hcalls' = Append(hcalls, [op |-> "ecs.update_service", ok |-> ok,
                                      arg |-> "desiredCount=0"])
         /\ results' = [results EXCEPT !.ecs_stopped =
                           IF ok THEN "True" ELSE ErrText("ecs.update_service")]
    /\ hpc' = "cache_delete"
    /\ UNCHANGED <<hcfg, hh>>
    /\ UNCHANGED <<logvars, lmvars, svars, mvars, vvars, cvars>>

\* shutdown.py:110-124
HDeleteReplicationGroup ==
    /\ hpc = "cache_delete"
    /\ \E ok \in BOOLEAN :
         /\ hcalls' = Append(hcalls, [op |-> "elasticache.delete_replication_group",
                                      ok |-> ok,
                                      arg |-> hcfg.final_snapshot])
         /\ results' = [results EXCEPT !.elasticache_stopped =
                           IF ok THEN "True"
                           ELSE ErrText("elasticache.delete_replication_group")]
    /\ hpc' = "cache_metrics"
    /\ UNCHANGED <<hcfg, hh>>
    /\ UNCHANGED <<logvars, lmvars, svars, mvars, vvars, cvars>>

\* shutdown.py:126-129, 265-288, 320-386: the export returns its location, or
\* the put_object at its end raises (listing and statistics failures are
\* skipped inside the export)
HExportElasticacheMetrics ==
    /\ hpc = "cache_metrics"
    /\ \E ok \in BOOLEAN :
         /\ hcalls' = Append(hcalls, [op |-> "export_elasticache_metrics_to_s3",
                                      ok |-> ok, arg |-> ""])
         /\ IF ok
            THEN /\ results' = [results EXCEPT !.metrics_export = "uri"]
                 /\ hpc' = "ecs_metrics"
            ELSE /\ hpc' = "raised"
                 /\ UNCHANGED results
    /\ UNCHANGED <<hcfg, hh>>
    /\ UNCHANGED <<logvars, lmvars, svars, mvars, vvars, cvars>>

\* shutdown.py:131-134, 291-317, 320-386
HExportEcsMetrics ==
    /\ hpc = "ecs_metrics"
    /\ \E ok \in BOOLEAN :
         /\ hcalls' = Append(hcalls, [op |-> "export_ecs_metrics_to_s3",
                                      ok |-> ok, arg |-> ""])
         /\ IF ok
            THEN /\ results' = [results EXCEPT !.ecs_metrics_export = "uri"]
                 /\ hpc' = "logs"
            ELSE /\ hpc' = "raised"
                 /\ UNCHANGED results
    /\ UNCHANGED <<hcfg, hh>>
    /\ UNCHANGED <<logvars, lmvars, svars, mvars, vvars, cvars>>

\* shutdown.py:136-167: the next of the four export_logs_to_s3 calls
HExportLogs ==
    /\ hpc = "logs"
    /\ LET i == Len(results.log_exports) + 1
           lg == hcfg.log_groups[i]
       IN \E ret \in LogOutcomes(lg) :
            /\ hcalls' = Append(hcalls, [op |-> "export_logs_to_s3", ok |-> ret # "raise",
                                         arg |-> LogSources[i]])
            /\ IF ret = "raise"
               THEN /\ hpc' = "raised"
                    /\ UNCHANGED results
               ELSE /\ results' = [results EXCEPT !.log_exports = Append(@, ret)]
                    /\ hpc' = IF i = Len(LogSources) THEN "notify" ELSE "logs"
    /\ UNCHANGED <<hcfg, hh>>
    /\ UNCHANGED <<logvars, lmvars, svars, mvars, vvars, cvars>>

\* shutdown.py:169-182, 194-262
HNotify ==
    /\ hpc = "notify"
    /\ \/ /\ hcfg.notify = "disabled"
          /\ results' = [results EXCEPT !.notification_sent = "None"]
          /\ UNCHANGED hcalls
       \/ /\ hcfg.notify = "bad_arn"
          /\ results' = [results EXCEPT !.notification_sent = "False"]
          /\ UNCHANGED hcalls
       \/ /\ hcfg.notify = "ok"
          /\ \E ok \in BOOLEAN :
               /\ hcalls' = Append(hcalls, [op |-> "ses.send_email", ok |-> ok,
                                            arg |-> ""])
               /\ results' = [results EXCEPT !.notification_sent =
                                 IF ok THEN "True" ELSE "False"]
    /\ hpc' = "return"
    /\ UNCHANGED <<hcfg, hh>>
    /\ UNCHANGED <<logvars, lmvars, svars, mvars, vvars, cvars>>

\* shutdown.py:188-191
HReturn ==
    /\ hpc = "return"
    /\ hpc' = "returned"
    /\ hh' = [statusCode |-> 200, body |-> results]
    /\ UNCHANGED <<results, hcalls, hcfg>>
    /\ UNCHANGED <<logvars, lmvars, svars, mvars, vvars, cvars>>

InitTeardown ==
    /\ hpc = "start"
    /\ hcfg \in HandlerConfigs
    /\ results = <<>>
    /\ hcalls = <<>>
    /\ hh = <<>>
    /\ LogIdle /\ ListIdle /\ SchedIdle
    /\ MetricIdle /\ VerifyIdle /\ CronIdle

NextTeardown ==
    \/ HStart
    \/ HUpdateService
    \/ HDeleteReplicationGroup
    \/ HExportElasticacheMetrics
    \/ HExportEcsMetrics
    \/ HExportLogs
    \/ HNotify
    \/ HReturn

SpecTeardown == InitTeardown /\ [][NextTeardown]_vars

----------------------------------------------------------------------------
(* The scheduler (schedule_shutdown.py).  A datetime is the record of its  *)
(* fields; a schedule expression is a string.                              *)

Dt(y, mo, d, h, mi, sec) ==
    [year |-> y, month |-> mo, day |-> d, hour |-> h, minute |-> mi, second |-> sec]

IsLeap(y) == (y % 4 = 0 /\ y % 100 # 0) \/ y % 400 = 0
DaysInMonth(y, mo) ==
    IF mo = 2 THEN (IF IsLeap(y) THEN 29 ELSE 28)
    ELSE IF mo \in {4, 6, 9, 11} THEN 30 ELSE 31

\* datetime + timedelta(minutes=1)
AddMinute(dt) ==
    IF dt.minute < 59 THEN [dt EXCEPT !.minute = @ + 1]
    ELSE IF dt.hour < 23 THEN [dt EXCEPT !.minute = 0, !.hour = @ + 1]
    ELSE IF dt.day < DaysInMonth(dt.year, dt.month)
         THEN [dt EXCEPT !.minute = 0, !.hour = 0, !.day = @ + 1]
    ELSE IF dt.month < 12
         THEN [dt EXCEPT !.minute = 0, !.hour = 0, !.day = 1, !.month = @ + 1]
    ELSE [dt EXCEPT !.minute = 0, !.hour = 0, !.day = 1, !.month = 1, !.year = @ + 1]

\* datetime + timedelta(minutes=n), n >= 0
RECURSIVE AddMinutes(_, _)
AddMinutes(dt, n) == IF n <= 0 THEN dt ELSE AddMinutes(AddMinute(dt), n - 1)

\* datetime + timedelta(seconds=n), 0 <= n
RECURSIVE AddSeconds(_, _)
AddSeconds(dt, n) ==
    IF dt.second + n < 60 THEN [dt EXCEPT !.second = @ + n]
    ELSE AddSeconds(AddMinute([dt EXCEPT !.second = 0]), dt.second + n - 60)

\* a < b on datetimes
DtLess(a, b) ==
    LET ka == <<a.year, a.month, a.day, a.hour, a.minute, a.second>>
        kb == <<b.year, b.month, b.day, b.hour, b.minute, b.second>>
    IN \E i \in 1..6 : ka[i] < kb[i] /\ \A j \in 1..(i - 1) : ka[j] = kb[j]

\* A string is the sequence of its characters.
Digits == <<"0", "1", "2", "3", "4", "5", "6", "7", "8", "9">>
IsDigit(c) == \E i \in 1..10 : Digits[i] = c
DigitVal(c) == (CHOOSE i \in 1..10 : Digits[i] = c) - 1
Whitespace == {" "}

\* str(n), as an f-string renders an int
RECURSIVE Str(_)
Str(n) ==
    IF n < 0 THEN <<"-">> \o Str(0 - n)
    ELSE IF n < 10 THEN <<Digits[n + 1]>>
    ELSE Str(n \div 10) \o <<Digits[(n % 10) + 1]>>

\* " ".join(fields)
RECURSIVE Join(_)
Join(fields) ==
    IF fields = <<>> THEN <<>>
    ELSE IF Len(fields) = 1 THEN fields[1]
    ELSE fields[1] \o <<" ">> \o Join(Tail(fields))

StartsWith(s, prefix) ==
    Len(s) >= Len(prefix) /\ SubSeq(s, 1, Len(prefix)) = prefix
EndsWith(s, suffix) ==
    Len(s) >= Len(suffix) /\ SubSeq(s, Len(s) - Len(suffix) + 1, Len(s)) = suffix

\* str.split(): the maximal runs of characters that are not whitespace
RECURSIVE SplitFrom(_, _, _)
SplitFrom(s, i, word) ==
    IF i > Len(s) THEN (IF word = <<>> THEN <<>> ELSE <<word>>)
    ELSE IF s[i] \in Whitespace
         THEN (IF word = <<>> THEN <<>> ELSE <<word>>) \o SplitFrom(s, i + 1, <<>>)
    ELSE SplitFrom(s, i + 1, Append(word, s[i]))
Split(s) == SplitFrom(s, 1, <<>>)

\* the fields of a schedule expression, as _cron_at writes them
IntField(n) == Str(n)
QuestionMark == <<"?">>
Star == <<"*">>
CronPrefix == <<"c", "r", "o", "n", "(">>
Cron(fields) == CronPrefix \o Join(fields) \o <<")">>
EmptyExpr == <<>>                                     \* ""

\* int(word): an optional sign, then digits, single underscores allowed between
\* digits; anything else is a ValueError.  A C int holds -2^31 .. 2^31 - 1: the
\* magnitude is compared digit by digit, so that a value outside it is told
\* apart without being computed.
CIntMaxDigits == <<2, 1, 4, 7, 4, 8, 3, 6, 4, 7>>
CIntMinDigits == <<2, 1, 4, 7, 4, 8, 3, 6, 4, 8>>

RECURSIVE StripZeros(_)
StripZeros(ds) ==
    IF Len(ds) > 1 /\ ds[1] = 0 THEN StripZeros(Tail(ds)) ELSE ds

RECURSIVE DigitsOf(_)
DigitsOf(body) ==
    IF body = <<>> THEN <<>>
    ELSE IF body[1] = "_" THEN DigitsOf(Tail(body))
    ELSE <<DigitVal(body[1])>> \o DigitsOf(Tail(body))

\* a > b for digit sequences of the same length
DigitsGreater(a, b) ==
    \E i \in 1..Len(a) : a[i] > b[i] /\ \A j \in 1..(i - 1) : a[j] = b[j]

RECURSIVE SignedValue(_, _, _)
SignedValue(ds, sign, acc) ==
    IF ds = <<>> THEN acc
    ELSE SignedValue(Tail(ds), sign, acc * 10 + sign * ds[1])

NotAnInt == [ok |-> FALSE, big |-> FALSE, v |-> 0]
PyInt(word) ==
    LET signed == word # <<>> /\ word[1] \in {"+", "-"}
        sign == IF signed /\ word[1] = "-" THEN 0 - 1 ELSE 1
        body == IF signed THEN Tail(word) ELSE word
        wellFormed ==
            /\ body # <<>>
            /\ \A i \in 1..Len(body) : IsDigit(body[i]) \/ body[i] = "_"
            /\ IsDigit(body[1]) /\ IsDigit(body[Len(body)])
            /\ \A i \in 1..(Len(body) - 1) : ~(body[i] = "_" /\ body[i + 1] = "_")
        ds == StripZeros(DigitsOf(body))
        limit == IF sign = 1 THEN CIntMaxDigits ELSE CIntMinDigits
        big == Len(ds) > Len(limit) \/ (Len(ds) = Len(limit) /\ DigitsGreater(ds, limit))
    IN IF ~wellFormed THEN NotAnInt
       ELSE IF big THEN [ok |-> TRUE, big |-> TRUE, v |-> 0]
       ELSE [ok |-> TRUE, big |-> FALSE, v |-> SignedValue(ds, sign, 0)]

\* what _parse_cron_expression hands back: None, a datetime, or an exception
\* that leaves it
None == [ok |-> FALSE, raised |-> FALSE, dt |-> Dt(0, 0, 0, 0, 0, 0)]
Some(dt) == [ok |-> TRUE, raised |-> FALSE, dt |-> dt]
Overflow == [ok |-> FALSE, raised |-> TRUE, dt |-> Dt(0, 0, 0, 0, 0, 0)]

\* datetime(year, month, day, hour, minute) raises ValueError outside these
ValidDatetime(y, mo, d, h, mi) ==
    /\ y \in 1..9999
    /\ mo \in 1..12
    /\ d >= 1 /\ d <= DaysInMonth(y, mo)
    /\ h \in 0..23
    /\ mi \in 0..59

\* schedule_shutdown.py:68-78: the try block.  int() of each field first (a
\* ValueError is caught); datetime() converts its arguments to C ints before it
\* looks at their ranges, and the OverflowError of that conversion is not a
\* ValueError.
MakeDatetime(year, month, day, hour, minute) ==
    LET y == PyInt(year)
        mo == PyInt(month)
        d == PyInt(day)
        h == PyInt(hour)
        mi == PyInt(minute)
    IN IF ~(y.ok /\ mo.ok /\ d.ok /\ h.ok /\ mi.ok) THEN None
       ELSE IF y.big \/ mo.big \/ d.big \/ h.big \/ mi.big THEN Overflow
       ELSE IF ~ValidDatetime(y.v, mo.v, d.v, h.v, mi.v) THEN None
       ELSE Some(Dt(y.v, mo.v, d.v, h.v, mi.v, 0))

\* the parser passing day and month to datetime() in each other's place
ParseSwapsDayAndMonth(expr) ==
    IF ~(StartsWith(expr, CronPrefix) /\ EndsWith(expr, <<")">>)) THEN None
    ELSE LET cron_parts == Split(SubSeq(expr, 6, Len(expr) - 1)) IN
         IF Len(cron_parts) # 6 THEN None
         ELSE LET minute == cron_parts[1]
                  hour == cron_parts[2]
                  day == cron_parts[3]
                  month == cron_parts[4]
                  day_of_week == cron_parts[5]
                  year == cron_parts[6]
              IN IF day_of_week # QuestionMark THEN None
                 ELSE MakeDatetime(year, day, month, hour, minute)

\* schedule_shutdown.py:56-78
ParseCronExpression(expr) ==
    IF ~(StartsWith(expr, CronPrefix) /\ EndsWith(expr, <<")">>)) THEN None
    ELSE LET cron_parts == Split(SubSeq(expr, 6, Len(expr) - 1)) IN
         IF Len(cron_parts) # 6 THEN None
         ELSE LET minute == cron_parts[1]
                  hour == cron_parts[2]
                  day == cron_parts[3]
                  month == cron_parts[4]
                  day_of_week == cron_parts[5]
                  year == cron_parts[6]
              IN IF day_of_week # QuestionMark THEN None
                 ELSE MakeDatetime(year, month, day, hour, minute)

\* the format writing the hour before the minute
CronAtHourFirst(dt) ==
    Cron(<<IntField(dt.hour), IntField(dt.minute), IntField(dt.day),
           IntField(dt.month), QuestionMark, IntField(dt.year)>>)

\* schedule_shutdown.py:81-82
CronAt(dt) ==
    Cron(<<IntField(dt.minute), IntField(dt.hour), IntField(dt.day),
           IntField(dt.month), QuestionMark, IntField(dt.year)>>)

\* SHUTDOWN_RULE_PLACEHOLDER (schedule_shutdown.py:93): cron(0 0 1 1 ? 2099)
Placeholder == CronAt(Dt(2099, 1, 1, 0, 0, 0))
\* minutes added to the duration for the default verify delay
VERIFY_EXTRA_MINUTES == 15
\* the grace window of line 115, in minutes
GRACE_MINUTES == 1

\* the clock starts three minutes before the placeholder's instant, so that the
\* window holds a rollover of every field and the placeholder's own minute
StartTime == Dt(2098, 12, 31, 23, 57, 0)

\* cron(30 12 15 6 ? 2098), and the same with one field replaced
BaseFields == <<Str(30), Str(12), Str(15), Str(6), QuestionMark, Str(2098)>>
WithField(i, word) == Cron([BaseFields EXCEPT ![i] = word])

\* what describe_rule may find in the shutdown rule before the first invocation:
\* the placeholder, cron(30 12 * 6 ? 2098), a year no C int holds, a time that
\* has passed and a time two minutes ahead
InitialExpressions ==
    {Placeholder,
     WithField(3, Star),
     WithField(6, <<"2", "1", "4", "7", "4", "8", "3", "6", "4", "8">>),
     CronAt(Dt(2098, 12, 31, 23, 0, 0)),
     CronAt(Dt(2098, 12, 31, 23, 59, 0))}

\* ecs.describe_services: no matching service, or its counts
DescribeResponses ==
    {[found |-> FALSE, desiredCount |-> 0, runningCount |-> 0]}
    \cup {[found |-> TRUE, desiredCount |-> d, runningCount |-> r] :
             d \in 0..1, r \in 0..1}

SchedulerConfigs ==
    [duration_minutes : 0..MaxDuration,
     verify_rule_name : {"", "verify"},
     notify : {"disabled", "ok"}]

\* the call of an invocation that raises, if any: nothing in the handler catches
\* an exception, so the first call that raises is the last one issued
Failures == {"none", "describe_services", "describe_rule", "put_shutdown",
             "put_verify", "send_email"}

SCall(op, name, expr, ok) == [op |-> op, name |-> name, expr |-> expr, ok |-> ok]

\* the running test looking at the desired count only
DesiredCountOnly(svc) == svc.desiredCount < 1

\* schedule_shutdown.py:102-104
ServiceNotRunning(svc) == svc.desiredCount < 1 \/ svc.runningCount < 1

\* the comparison of line 115 reversed
ScheduledBeforeGrace(scheduled_at, t) ==
    scheduled_at.ok /\ DtLess(scheduled_at.dt, AddMinutes(t, GRACE_MINUTES))

\* schedule_shutdown.py:115: is the shutdown already scheduled?
AlreadyScheduled(scheduled_at, t) ==
    scheduled_at.ok /\ DtLess(AddMinutes(t, GRACE_MINUTES), scheduled_at.dt)

\* schedule_shutdown.py:85-152: one invocation, as the calls it issues, the rule
\* expressions it leaves and what it returns ("raised" when a call raised)
Handler(resp, fail) ==
    LET o == [c \in Failures |-> fail # c]
        duration_minutes == scfg.duration_minutes
        verify_delay_minutes == duration_minutes + VERIFY_EXTRA_MINUTES
        out(result, cs, rs) == [result |-> result, calls |-> cs, rules |-> rs]
        c1 == <<SCall("ecs.describe_services", "", EmptyExpr, o.describe_services)>>
        c2 == Append(c1, SCall("events.describe_rule", "shutdown", EmptyExpr,
                               o.describe_rule))
        seen == rules.shutdown
        schedule_expression == IF seen = Placeholder THEN EmptyExpr ELSE seen
        scheduled_at == ParseCronExpression(schedule_expression)
        shutdown_time == AddMinutes(now, duration_minutes)
        cron_expr == CronAt(shutdown_time)
        c3 == Append(c2, SCall("events.put_rule", "shutdown", cron_expr, o.put_shutdown))
        r3 == [rules EXCEPT !.shutdown = cron_expr]
        verify_time == AddMinutes(now, verify_delay_minutes)
        c4 == IF scfg.verify_rule_name # ""
              THEN Append(c3, SCall("events.put_rule", "verify", CronAt(verify_time),
                                    o.put_verify))
              ELSE c3
        r4 == IF scfg.verify_rule_name # ""
              THEN [r3 EXCEPT !.verify = CronAt(verify_time)]
              ELSE r3
        c5 == IF scfg.notify = "ok"
              THEN Append(c4, SCall("ses.send_email", "", EmptyExpr, o.send_email))
              ELSE c4
    IN IF ~o.describe_services THEN out("raised", c1, rules)
       ELSE IF ~resp.found THEN out("service_not_found", c1, rules)
       ELSE IF ServiceNotRunning(resp) THEN out("not_running", c1, rules)
       ELSE IF ~o.describe_rule THEN out("raised", c2, rules)
       ELSE IF scheduled_at.raised THEN out("raised", c2, rules)
       ELSE IF AlreadyScheduled(scheduled_at, now) THEN out("already_scheduled", c2, rules)
       ELSE IF ~o.put_shutdown THEN out("raised", c3, rules)
       ELSE IF scfg.verify_rule_name # "" /\ ~o.put_verify THEN out("raised", c4, r3)
       ELSE IF scfg.notify = "ok" /\ ~o.send_email THEN out("raised", c5, r4)
       ELSE out("scheduled", c5, r4)

\* no invocation has run at the current instant
NoInvocation ==
    [result |-> "none", at |-> StartTime,
     resp |-> [found |-> FALSE, desiredCount |-> 0, runningCount |-> 0],
     seen |-> EmptyExpr, seen_verify |-> EmptyExpr, was_armed |-> FALSE,
     armed_minute |-> StartTime, calls |-> <<>>]

\* one invocation of the scheduler lambda; sched records what it saw (the clock,
\* the describe_services response, the rule expression, the minute armed by an
\* earlier invocation) and what it did
Invoke ==
    /\ \E resp \in DescribeResponses, fail \in Failures :
         \E h \in {Handler(resp, fail)} :
         /\ rules' = h.rules
         /\ sched' = [result |-> h.result, at |-> now, resp |-> resp,
                      seen |-> rules.shutdown, seen_verify |-> rules.verify,
                      was_armed |-> sh.armed,
                      armed_minute |-> sh.armed_minute, calls |-> h.calls]
         /\ sh' = IF \E i \in DOMAIN h.calls :
                        /\ h.calls[i].op = "events.put_rule"
                        /\ h.calls[i].name = "shutdown"
                        /\ h.calls[i].ok
                  THEN [sh EXCEPT !.armed = TRUE,
                                  !.armed_minute =
                                      [AddMinutes(now, scfg.duration_minutes)
                                          EXCEPT !.second = 0]]
                  ELSE sh
    /\ UNCHANGED <<now, scfg>>
    /\ UNCHANGED <<logvars, lmvars, hvars, mvars, vvars, cvars>>

\* time passes
Tick ==
    /\ sh.ticks < MaxTicks
    /\ now' = AddSeconds(now, TickSeconds)
    /\ sh' = [sh EXCEPT !.ticks = @ + 1]
    /\ sched' = NoInvocation
    /\ UNCHANGED <<rules, scfg>>
    /\ UNCHANGED <<logvars, lmvars, hvars, mvars, vvars, cvars>>

InitSched ==
    /\ now = StartTime
    /\ rules \in [shutdown : InitialExpressions, verify : {Placeholder}]
    /\ scfg \in SchedulerConfigs
    /\ sched = NoInvocation
    /\ sh = [ticks |-> 0, armed |-> FALSE, armed_minute |-> StartTime]
    /\ LogIdle /\ ListIdle /\ HandlerIdle
    /\ MetricIdle /\ VerifyIdle /\ CronIdle

NextSched ==
    \/ Invoke
    \/ Tick

SpecSched == InitSched /\ [][NextSched]_vars

----------------------------------------------------------------------------
(* The metric export (shutdown.py:265-386).  _list_metrics is taken as one *)
(* step here: it returns the metrics it kept or raises.                    *)

STATISTICS == <<"Average", "Sum", "Maximum", "Minimum">>
HeaderRow == <<"Timestamp", "Namespace", "MetricName", "Stat", "Value", "Unit",
               "Dimensions">>

Dim(name, value) == [Name |-> name, Value |-> value]
\* the dimensions of the model, in the order sorted() puts their (Name, Value)
DimOrder == <<Dim("CacheClusterId", "node-1"), Dim("ClusterName", "cl"),
              Dim("ReplicationGroupId", "rg"), Dim("ServiceName", "svc")>>
DimRank(d) == CHOOSE i \in DOMAIN DimOrder : DimOrder[i] = d

\* sorted(seq, key=...): keys[i] is the key of seq[i]; stable, each element is
\* put before the first one whose key is greater
RECURSIVE InsertSorted(_, _)
InsertSorted(p, ps) ==
    IF ps = <<>> THEN <<p>>
    ELSE IF p.k < Head(ps).k THEN <<p>> \o ps
    ELSE <<Head(ps)>> \o InsertSorted(p, Tail(ps))
RECURSIVE SortPairs(_)
SortPairs(ps) ==
    IF ps = <<>> THEN <<>>
    ELSE InsertSorted(ps[Len(ps)], SortPairs(SubSeq(ps, 1, Len(ps) - 1)))
SortedBy(seq, keys) ==
    LET ps == SortPairs([i \in DOMAIN seq |-> [k |-> keys[i], x |-> seq[i]]])
    IN [i \in DOMAIN ps |-> ps[i].x]

\* the key built straight from the listed order of the dimensions
DimsKeyAsListed(dimensions) ==
    [i \in DOMAIN dimensions |-> <<dimensions[i].Name, dimensions[i].Value>>]

\* shutdown.py:339: tuple(sorted((d['Name'], d['Value']) for d in dimensions))
DimsKey(dimensions) ==
    LET sorted == SortedBy(dimensions,
                           [i \in DOMAIN dimensions |-> DimRank(dimensions[i])]) IN
    [i \in DOMAIN sorted |-> <<sorted[i].Name, sorted[i].Value>>]

\* shutdown.py:28-31: the pairs of the Dimensions column, in its order
DimensionsToStr(dimensions) ==
    LET sorted == SortedBy(dimensions,
                           [i \in DOMAIN dimensions |-> DimRank(dimensions[i])]) IN
    [i \in DOMAIN sorted |-> <<sorted[i].Name, sorted[i].Value>>]

\* shutdown.py:341: metric_map[metric_key] = dimensions
DictSet(map, key, value) ==
    IF \E i \in DOMAIN map : map[i].key = key
    THEN [i \in DOMAIN map |-> IF map[i].key = key
                               THEN [key |-> key, dimensions |-> value]
                               ELSE map[i]]
    ELSE Append(map, [key |-> key, dimensions |-> value])

\* shutdown.py:336-341: the metrics of one source merged into the map
RECURSIVE Merge(_, _, _)
Merge(map, namespace, metrics) ==
    IF metrics = <<>> THEN map
    ELSE LET metric == Head(metrics)
             metric_key == <<namespace, metric.MetricName, DimsKey(metric.Dimensions)>>
         IN Merge(DictSet(map, metric_key, metric.Dimensions), namespace,
                  Tail(metrics))

\* shutdown.py:268-273 and 294-315
Source(namespace, dimensions) == [namespace |-> namespace, dimensions |-> dimensions]
ElasticacheSource == Source("AWS/ElastiCache", <<Dim("ReplicationGroupId", "rg")>>)
MemberSource(cluster_id) ==
    Source("AWS/ElastiCache", <<Dim("CacheClusterId", cluster_id)>>)
EcsSources ==
    <<Source("AWS/ECS", <<Dim("ClusterName", "cl"), Dim("ServiceName", "svc")>>),
      Source("ECS/ContainerInsights", <<Dim("ClusterName", "cl")>>),
      Source("ECS/ContainerInsights",
             <<Dim("ClusterName", "cl"), Dim("ServiceName", "svc")>>)>>

\* what the metric backend may list for a source: metrics that carry the
\* filter's dimensions, in whatever order the backend gives the dimensions
SeriesNames == {"m1", "m2"}
DimsOf(namespace) ==
    IF namespace = "AWS/ElastiCache"
    THEN {Dim("ReplicationGroupId", "rg"), Dim("CacheClusterId", "node-1")}
    ELSE {Dim("ClusterName", "cl"), Dim("ServiceName", "svc")}
DimSeqs(namespace) ==
    {<<d>> : d \in DimsOf(namespace)}
    \cup {x \in DimsOf(namespace) \X DimsOf(namespace) : x[1] # x[2]}
Matching(source) ==
    {[MetricName |-> n, Dimensions |-> ds] :
        n \in SeriesNames,
        ds \in {x \in DimSeqs(source.namespace) :
                   \A i \in DOMAIN source.dimensions :
                      \E j \in DOMAIN x : x[j] = source.dimensions[i]}}
Listings(source) == UNION {[1..n -> Matching(source)] : n \in 0..MaxMetrics}

\* the Datapoints of one get_metric_statistics response
Datapoint(ts, values) == [Timestamp |-> ts, Unit |-> "Count", values |-> values]
DatapointLists ==
    {<<>>,
     <<Datapoint(2, [x \in {"Average", "Sum", "Maximum", "Minimum"} |-> 7]),
       Datapoint(1, [x \in {"Average", "Sum"} |-> 5])>>}
\* shutdown.py:359-362
SortedDatapoints(datapoints) ==
    SortedBy(datapoints, [i \in DOMAIN datapoints |-> datapoints[i].Timestamp])

\* shutdown.py:366-376: the rows of one datapoint, a row per statistic it has
RECURSIVE StatRows(_, _, _, _, _)
StatRows(stats, datapoint, namespace, metric_name, dimensions_str) ==
    IF stats = <<>> THEN <<>>
    ELSE (IF Head(stats) \in DOMAIN datapoint.values
          THEN <<[ts |-> datapoint.Timestamp, namespace |-> namespace,
                  metric_name |-> metric_name, stat |-> Head(stats),
                  value |-> datapoint.values[Head(stats)], unit |-> datapoint.Unit,
                  dimensions_str |-> dimensions_str]>>
          ELSE <<>>)
         \o StatRows(Tail(stats), datapoint, namespace, metric_name, dimensions_str)

\* shutdown.py:359-376: the rows of one response
RECURSIVE DatapointRows(_, _, _, _)
DatapointRows(datapoints, namespace, metric_name, dimensions_str) ==
    IF datapoints = <<>> THEN <<>>
    ELSE StatRows(STATISTICS, Head(datapoints), namespace, metric_name, dimensions_str)
         \o DatapointRows(Tail(datapoints), namespace, metric_name, dimensions_str)

MCall(op, ok) ==
    [op |-> op, ok |-> ok, src |-> 0, metrics |-> <<>>, namespace |-> "",
     metric_name |-> "", dimensions |-> <<>>, datapoints |-> <<>>, body |-> <<>>]

\* shutdown.py:275-288: export_elasticache_metrics_to_s3 adds a source per
\* member cluster; a failing describe call is caught
MDescribeReplicationGroups ==
    /\ mpc = "describe"
    /\ \/ \E members \in {<<>>, <<"node-1">>} :
            /\ sources' = sources \o [i \in DOMAIN members |-> MemberSource(members[i])]
            /\ mcalls' = Append(mcalls, MCall("elasticache.describe_replication_groups",
                                              TRUE))
       \/ /\ mcalls' = Append(mcalls, MCall("elasticache.describe_replication_groups",
                                            FALSE))
          /\ UNCHANGED sources
    /\ mpc' = "list"
    /\ UNCHANGED <<src_i, metric_map, map_i, csv_rows, m_ret>>
    /\ UNCHANGED <<logvars, lmvars, hvars, svars, vvars, cvars>>

\* the number of metrics listed so far
RECURSIVE ListedSoFar(_)
ListedSoFar(cs) ==
    IF cs = <<>> THEN 0 ELSE Len(Head(cs).metrics) + ListedSoFar(Tail(cs))

\* shutdown.py:326-341: one iteration of the loop over sources
MListMetrics ==
    /\ mpc = "list"
    /\ LET source == sources[src_i]
           next(map) == IF src_i < Len(sources) THEN "list"
                        ELSE IF map = <<>> THEN "put" ELSE "fetch"
       IN \/ \E metrics \in Listings(source) :
               /\ ListedSoFar(mcalls) + Len(metrics) <= MaxListed
               /\ mcalls' = Append(mcalls, [MCall("cloudwatch.list_metrics", TRUE)
                                              EXCEPT !.src = src_i,
                                                     !.metrics = metrics])
               /\ metric_map' = Merge(metric_map, source.namespace, metrics)
               /\ mpc' = next(metric_map')
          \/ /\ mcalls' = Append(mcalls, [MCall("cloudwatch.list_metrics", FALSE)
                                            EXCEPT !.src = src_i])
             /\ UNCHANGED metric_map
             /\ mpc' = next(metric_map)
    /\ src_i' = src_i + 1
    /\ UNCHANGED <<sources, map_i, csv_rows, m_ret>>
    /\ UNCHANGED <<logvars, lmvars, hvars, svars, vvars, cvars>>

\* a failing statistics call leaving the export
MGetMetricStatisticsUncaught ==
    /\ mpc = "fetch"
    /\ LET item == metric_map[map_i]
           namespace == item.key[1]
           metric_name == item.key[2]
           call(ok) == [MCall("cloudwatch.get_metric_statistics", ok)
                          EXCEPT !.namespace = namespace,
                                 !.metric_name = metric_name,
                                 !.dimensions = item.dimensions]
       IN \/ \E datapoints \in DatapointLists :
               /\ mcalls' = Append(mcalls, [call(TRUE) EXCEPT !.datapoints = datapoints])
               /\ csv_rows' = csv_rows \o DatapointRows(SortedDatapoints(datapoints),
                                                        namespace, metric_name,
                                                        DimensionsToStr(item.dimensions))
               /\ mpc' = IF map_i < Len(metric_map) THEN "fetch" ELSE "put"
               /\ UNCHANGED m_ret
          \/ /\ mcalls' = Append(mcalls, call(FALSE))
             /\ mpc' = "raised"
             /\ m_ret' = "raise"
             /\ UNCHANGED csv_rows
    /\ map_i' = map_i + 1
    /\ UNCHANGED <<sources, src_i, metric_map>>
    /\ UNCHANGED <<logvars, lmvars, hvars, svars, vvars, cvars>>

\* shutdown.py:343-376: one iteration of the loop over metric_map.items()
MGetMetricStatistics ==
    /\ mpc = "fetch"
    /\ LET item == metric_map[map_i]
           namespace == item.key[1]
           metric_name == item.key[2]
           call(ok) == [MCall("cloudwatch.get_metric_statistics", ok)
                          EXCEPT !.namespace = namespace,
                                 !.metric_name = metric_name,
                                 !.dimensions = item.dimensions]
       IN \/ \E datapoints \in DatapointLists :
               /\ mcalls' = Append(mcalls, [call(TRUE) EXCEPT !.datapoints = datapoints])
               /\ csv_rows' = csv_rows \o DatapointRows(SortedDatapoints(datapoints),
                                                        namespace, metric_name,
                                                        DimensionsToStr(item.dimensions))
          \/ /\ mcalls' = Append(mcalls, call(FALSE))
             /\ UNCHANGED csv_rows
    /\ map_i' = map_i + 1
    /\ mpc' = IF map_i < Len(metric_map) THEN "fetch" ELSE "put"
    /\ UNCHANGED <<sources, src_i, metric_map, m_ret>>
    /\ UNCHANGED <<logvars, lmvars, hvars, svars, vvars, cvars>>

\* shutdown.py:378-386: the artifact is put, header row first
MPutObject ==
    /\ mpc = "put"
    /\ \E ok \in BOOLEAN :
         /\ mcalls' = Append(mcalls, [MCall("s3.put_object", ok)
                                        EXCEPT !.body = <<HeaderRow>> \o csv_rows])
         /\ mpc' = IF ok THEN "returned" ELSE "raised"
         /\ m_ret' = IF ok THEN "uri" ELSE "raise"
    /\ UNCHANGED <<sources, src_i, metric_map, map_i, csv_rows>>
    /\ UNCHANGED <<logvars, lmvars, hvars, svars, vvars, cvars>>

InitMetrics ==
    /\ \/ /\ mpc = "describe"
          /\ sources = <<ElasticacheSource>>
       \/ /\ mpc = "list"
          /\ sources = EcsSources
    /\ src_i = 1 /\ metric_map = <<>> /\ map_i = 1 /\ csv_rows = <<>>
    /\ mcalls = <<>> /\ m_ret = "pending"
    /\ LogIdle /\ ListIdle /\ HandlerIdle /\ SchedIdle
    /\ VerifyIdle /\ CronIdle

NextMetrics ==
    \/ MDescribeReplicationGroups
    \/ MListMetrics
    \/ MGetMetricStatistics
    \/ MPutObject

SpecMetrics == InitMetrics /\ [][NextMetrics]_vars

----------------------------------------------------------------------------
(* The verifier (verify_shutdown.py).  A response dictionary is a record   *)
(* with the set of the keys it has, so that .get(key, default) is modelled.*)

Get(d, key, default) == IF key \in d.keys THEN d[key] ELSE default

\* what ecs.describe_services does: it raises, or returns a response whose
\* services list is empty or holds the service
EcsServices ==
    {[keys |-> ks, runningCount |-> r, desiredCount |-> d, status |-> "ACTIVE"] :
        ks \in {{"runningCount", "desiredCount", "status"}, {"desiredCount"}, {}},
        r \in {0, 2}, d \in {0, 1}}
EcsOutcomes ==
    {[raised |-> TRUE, services |-> <<>>]}
    \cup {[raised |-> FALSE, services |-> <<>>]}
    \cup {[raised |-> FALSE, services |-> <<svc>>] : svc \in EcsServices}

\* what elasticache.describe_replication_groups does: ReplicationGroupNotFoundFault,
\* another exception, or a response whose ReplicationGroups list is empty or
\* holds the group in some state
GroupStates == {"available", "creating", "modifying", "deleting", "snapshotting"}
CacheGroups ==
    {[keys |-> {"Status"}, Status |-> st] : st \in GroupStates}
    \cup {[keys |-> {}, Status |-> "available"]}
CacheOutcomes ==
    {[raised |-> e, groups |-> <<>>] : e \in {"ReplicationGroupNotFoundFault", "other"}}
    \cup {[raised |-> "no", groups |-> <<>>]}
    \cup {[raised |-> "no", groups |-> <<g>>] : g \in CacheGroups}

VerifierConfigs == [env_ok : BOOLEAN, notify : NotifyConfigs]

NoVerdict ==
    [ecs_is_running |-> FALSE, ecs_detail |-> <<>>,
     elasticache_is_running |-> FALSE, elasticache_detail |-> <<>>,
     ecs_outcome |-> [raised |-> FALSE, services |-> <<>>],
     cache_outcome |-> [raised |-> "no", groups |-> <<>>]]

\* verify_shutdown.py:81-84: the required environment variables
VStart ==
    /\ vpc = "start"
    /\ vpc' = IF vcfg.env_ok THEN "ecs" ELSE "raised"
    /\ UNCHANGED <<vcfg, vres, vcalls>>
    /\ UNCHANGED <<logvars, lmvars, hvars, svars, mvars, cvars>>

\* a failed describe call reported as not running
EcsRunningFailOpen(outcome) ==
    IF outcome.raised THEN <<FALSE, <<"describe_failed">>>>
    ELSE IF outcome.services = <<>> THEN <<FALSE, <<"service_not_found">>>>
    ELSE LET svc == outcome.services[1]
             running == Get(svc, "runningCount", 0)
             desired == Get(svc, "desiredCount", 0)
             status == Get(svc, "status", "unknown")
         IN <<running > 0, <<"running", running, "desired", desired, "status", status>>>>

\* verify_shutdown.py:49-61
EcsRunning(outcome) ==
    IF outcome.raised THEN <<TRUE, <<"describe_failed">>>>
    ELSE IF outcome.services = <<>> THEN <<FALSE, <<"service_not_found">>>>
    ELSE LET svc == outcome.services[1]
             running == Get(svc, "runningCount", 0)
             desired == Get(svc, "desiredCount", 0)
             status == Get(svc, "status", "unknown")
         IN <<running > 0, <<"running", running, "desired", desired, "status", status>>>>

\* a group that is being deleted reported as not running
ElasticacheRunningUnlessDeleting(outcome) ==
    IF outcome.raised = "ReplicationGroupNotFoundFault" THEN <<FALSE, <<"not_found">>>>
    ELSE IF outcome.raised # "no" THEN <<TRUE, <<"describe_failed">>>>
    ELSE IF outcome.groups = <<>> THEN <<FALSE, <<"not_found">>>>
    ELSE LET status == Get(outcome.groups[1], "Status", "unknown") IN
         <<status # "deleting", <<"status", status>>>>

\* verify_shutdown.py:64-77
ElasticacheRunning(outcome) ==
    IF outcome.raised = "ReplicationGroupNotFoundFault" THEN <<FALSE, <<"not_found">>>>
    ELSE IF outcome.raised # "no" THEN <<TRUE, <<"describe_failed">>>>
    ELSE IF outcome.groups = <<>> THEN <<FALSE, <<"not_found">>>>
    ELSE LET status == Get(outcome.groups[1], "Status", "unknown") IN
         <<TRUE, <<"status", status>>>>

\* verify_shutdown.py:86
VEcsRunning ==
    /\ vpc = "ecs"
    /\ \E outcome \in EcsOutcomes :
         /\ vres' = [vres EXCEPT !.ecs_is_running = EcsRunning(outcome)[1],
                                 !.ecs_detail = EcsRunning(outcome)[2],
                                 !.ecs_outcome = outcome]
         /\ vcalls' = Append(vcalls, [op |-> "ecs.describe_services",
                                      ok |-> ~outcome.raised, subject |-> ""])
    /\ vpc' = "elasticache"
    /\ UNCHANGED vcfg
    /\ UNCHANGED <<logvars, lmvars, hvars, svars, mvars, cvars>>

\* verify_shutdown.py:87
VElasticacheRunning ==
    /\ vpc = "elasticache"
    /\ \E outcome \in CacheOutcomes :
         /\ vres' = [vres EXCEPT
                        !.elasticache_is_running = ElasticacheRunning(outcome)[1],
                        !.elasticache_detail = ElasticacheRunning(outcome)[2],
                        !.cache_outcome = outcome]
         /\ vcalls' = Append(vcalls, [op |-> "elasticache.describe_replication_groups",
                                      ok |-> outcome.raised = "no", subject |-> ""])
    /\ vpc' = "warn_ecs"
    /\ UNCHANGED vcfg
    /\ UNCHANGED <<logvars, lmvars, hvars, svars, mvars, cvars>>

\* verify_shutdown.py:10-46: _send_email; without a usable configuration no
\* call is made, and an exception of ses.send_email leaves the handler
SendEmail(subject, after) ==
    IF vcfg.notify # "ok"
    THEN /\ vpc' = after
         /\ UNCHANGED vcalls
    ELSE \E ok \in BOOLEAN :
           /\ vcalls' = Append(vcalls, [op |-> "ses.send_email", ok |-> ok,
                                        subject |-> subject])
           /\ vpc' = IF ok THEN after ELSE "raised"

\* verify_shutdown.py:89-97
VWarnEcs ==
    /\ vpc = "warn_ecs"
    /\ IF vres.ecs_is_running
       THEN SendEmail("ECS tasks still running", "warn_elasticache")
       ELSE vpc' = "warn_elasticache" /\ UNCHANGED vcalls
    /\ UNCHANGED <<vcfg, vres>>
    /\ UNCHANGED <<logvars, lmvars, hvars, svars, mvars, cvars>>

\* verify_shutdown.py:99-107
VWarnElasticache ==
    /\ vpc = "warn_elasticache"
    /\ IF vres.elasticache_is_running
       THEN SendEmail("ElastiCache still running", "success")
       ELSE vpc' = "success" /\ UNCHANGED vcalls
    /\ UNCHANGED <<vcfg, vres>>
    /\ UNCHANGED <<logvars, lmvars, hvars, svars, mvars, cvars>>

\* verify_shutdown.py:109-117
VSuccess ==
    /\ vpc = "success"
    /\ IF ~vres.ecs_is_running /\ ~vres.elasticache_is_running
       THEN SendEmail("All resources shut down", "return")
       ELSE vpc' = "return" /\ UNCHANGED vcalls
    /\ UNCHANGED <<vcfg, vres>>
    /\ UNCHANGED <<logvars, lmvars, hvars, svars, mvars, cvars>>

\* verify_shutdown.py:119-124
VReturn ==
    /\ vpc = "return"
    /\ vpc' = "returned"
    /\ UNCHANGED <<vcfg, vres, vcalls>>
    /\ UNCHANGED <<logvars, lmvars, hvars, svars, mvars, cvars>>

InitVerify ==
    /\ vpc = "start"
    /\ vcfg \in VerifierConfigs
    /\ vres = NoVerdict
    /\ vcalls = <<>>
    /\ LogIdle /\ ListIdle /\ HandlerIdle /\ SchedIdle
    /\ MetricIdle /\ CronIdle

NextVerify ==
    \/ VStart
    \/ VEcsRunning
    \/ VElasticacheRunning
    \/ VWarnEcs
    \/ VWarnElasticache
    \/ VSuccess
    \/ VReturn

SpecVerify == InitVerify /\ [][NextVerify]_vars

----------------------------------------------------------------------------
(* _cron_at and _parse_cron_expression on their own: a datetime is         *)
(* formatted and the text parsed; a text is parsed and, when it denotes a  *)
(* datetime, that datetime is formatted and parsed again.                  *)

CronYears == {1, 999, 2024, 2098, 2099, 9999}
CronMonths == {1, 2, 9, 10, 12}
CronDays == {1, 9, 10, 28, 29, 30, 31}
CronHours == {0, 9, 10, 23}
CronMinutes == {0, 9, 10, 59}
\* whole-minute UTC instants
CronDatetimes ==
    {t \in {Dt(y, mo, d, h, mi, 0) : y \in CronYears, mo \in CronMonths,
                                     d \in CronDays, h \in CronHours,
                                     mi \in CronMinutes} :
        t.day <= DaysInMonth(t.year, t.month)}

IntPositions == {1, 2, 3, 4, 6}
CronInput(text, defect) == [dt |-> Dt(0, 0, 0, 0, 0, 0), text |-> text, defect |-> defect]

\* words int() does not accept
NonIntegerWords ==
    {Star, <<"x">>, <<"-">>, <<"1", "_">>, <<"_", "1">>, <<"1", "_", "_", "0">>,
     <<"1", ".", "5">>, <<"?">>}
\* integers no field of a datetime can hold
OutOfRangeWords ==
    {Str(0 - 1), Str(10000), Str(2147483647),
     <<"2", "1", "4", "7", "4", "8", "3", "6", "4", "8">>,
     <<"9", "9", "9", "9", "9", "9", "9", "9", "9", "9", "9">>,
     <<"-", "2", "1", "4", "7", "4", "8", "3", "6", "4", "8">>,
     <<"-", "2", "1", "4", "7", "4", "8", "3", "6", "4", "9">>}

\* texts that denote a datetime without being what _cron_at writes
ValidTexts ==
    {WithField(1, <<"0", "5">>), WithField(2, <<"+", "5">>),
     WithField(1, <<"1", "_", "0">>), WithField(6, <<"0", "2", "0", "2", "4">>),
     CronPrefix \o <<" ">> \o Join(BaseFields) \o <<" ", ")">>,
     CronPrefix \o Str(30) \o <<" ", " ">> \o Join(Tail(BaseFields)) \o <<")">>,
     Cron(<<Str(0), Str(0), Str(29), Str(2), QuestionMark, Str(2024)>>)}

WrongFieldCount ==
    {Cron(SubSeq(BaseFields, 1, 5)), Cron(Append(BaseFields, Str(1))), Cron(<<>>),
     Cron(<<Str(0), Str(0), Str(1), Str(1), QuestionMark>>)}
WrongDayOfWeek ==
    {WithField(5, Star), WithField(5, Str(1)), WithField(5, <<"?", "?">>)}
NonIntegerField == {WithField(i, w) : i \in IntPositions, w \in NonIntegerWords}
OutOfRange ==
    {WithField(i, w) : i \in IntPositions, w \in OutOfRangeWords}
    \cup {WithField(1, Str(60)), WithField(2, Str(24)), WithField(3, Str(0)),
          WithField(3, Str(32)), WithField(4, Str(0)), WithField(4, Str(13)),
          WithField(6, Str(0)),
          Cron(<<Str(0), Str(0), Str(30), Str(2), QuestionMark, Str(2099)>>),
          Cron(<<Str(0), Str(0), Str(29), Str(2), QuestionMark, Str(2099)>>)}
NotCron ==
    {EmptyExpr, Join(BaseFields), <<"r", "a", "t", "e", "(", "1", ")">>,
     CronPrefix \o Join(BaseFields), <<"c", "r", "o", "n", ")">>}

CronInputs ==
    {CronInput(x, "none") : x \in ValidTexts}
    \cup {CronInput(x, "field_count") : x \in WrongFieldCount}
    \cup {CronInput(x, "day_of_week") : x \in WrongDayOfWeek}
    \cup {CronInput(x, "non_integer") : x \in NonIntegerField}
    \cup {CronInput(x, "out_of_range") : x \in OutOfRange}
    \cup {CronInput(x, "not_cron") : x \in NotCron}

NoCronOutput == [parsed |-> None, text |-> <<>>, reparsed |-> None]

\* _parse_cron_expression on the given text
CronParse ==
    /\ cpc = "parse"
    /\ LET r == ParseCronExpression(c_in.text) IN
       /\ c_out' = [c_out EXCEPT !.parsed = r]
       /\ cpc' = IF r.ok THEN "format" ELSE "done"
    /\ UNCHANGED c_in
    /\ UNCHANGED <<logvars, lmvars, hvars, svars, mvars, vvars>>

\* _cron_at on the datetime given, or on the one the text denotes
CronFormat ==
    /\ cpc = "format"
    /\ LET t == IF c_in.defect = "datetime" THEN c_in.dt ELSE c_out.parsed.dt IN
       c_out' = [c_out EXCEPT !.text = CronAt(t)]
    /\ cpc' = "reparse"
    /\ UNCHANGED c_in
    /\ UNCHANGED <<logvars, lmvars, hvars, svars, mvars, vvars>>

\* _parse_cron_expression on what _cron_at wrote
CronReparse ==
    /\ cpc = "reparse"
    /\ c_out' = [c_out EXCEPT !.reparsed = ParseCronExpression(c_out.text)]
    /\ cpc' = "done"
    /\ UNCHANGED c_in
    /\ UNCHANGED <<logvars, lmvars, hvars, svars, mvars, vvars>>

InitCron ==
    /\ \/ /\ cpc = "format"
          /\ c_in \in {[dt |-> t, text |-> <<>>, defect |-> "datetime"] :
                          t \in CronDatetimes}
       \/ /\ cpc = "parse"
          /\ c_in \in CronInputs
    /\ c_out = NoCronOutput
    /\ LogIdle /\ ListIdle /\ HandlerIdle /\ SchedIdle
    /\ MetricIdle /\ VerifyIdle

NextCron ==
    \/ CronParse
    \/ CronFormat
    \/ CronReparse

SpecCron == InitCron /\ [][NextCron]_vars

\* the parser on its own and inside the scheduler's invocations
InitCronSched ==
    \/ InitCron
    \/ InitSched

NextCronSched ==
    \/ CronParse
    \/ CronFormat
    \/ CronReparse
    \/ (cpc = "idle" /\ Invoke)
    \/ (cpc = "idle" /\ Tick)

SpecCronSched == InitCronSched /\ [][NextCronSched]_vars

----------------------------------------------------------------------------
(* One log export, for a configured or an unconfigured source.             *)

InitLog ==
    /\ log_group \in {"", "lg"}
    /\ buffer = <<>> /\ upload_id = 0 /\ parts = <<>>
    /\ part_number = 1 /\ next_token = NoToken
    /\ response = [events |-> <<>>, nextToken |-> NoToken] /\ ev_i = 1
    /\ lpc = "start" /\ log_ret = "pending" /\ received = <<>>
    /\ s3 = [upload |-> "none", partBodies |-> <<>>, completedWith |-> <<>>,
             objects |-> <<>>]
    /\ calls = <<>>
    /\ lh = [caught |-> "none", openAtFailure |-> FALSE, reached |-> FALSE,
             pages |-> 0, stopped |-> "no", peak |-> 0]
    /\ ListIdle /\ HandlerIdle /\ SchedIdle
    /\ MetricIdle /\ VerifyIdle /\ CronIdle

NextLog ==
    \/ LogEnter
    \/ FilterLogEvents
    \/ ProcessEvent
    \/ CheckToken
    \/ FinalFlush
    \/ CompleteUpload
    \/ AbortUpload
    \/ PutObject

SpecLog == InitLog /\ [][NextLog]_vars

----------------------------------------------------------------------------
(* Log export: what the storage calls tell.                                *)

LogDone == lpc \in {"returned", "raised"}
Issued(op) == \E i \in DOMAIN calls : calls[i].op = op
Succeeded(op) == \E i \in DOMAIN calls : calls[i] = Call(op, TRUE)
Count(op) == Cardinality({i \in DOMAIN calls : calls[i].op = op})
MultipartOps == {"create_multipart_upload", "upload_part",
                 "complete_multipart_upload", "abort_multipart_upload"}
\* a storage call other than the abort itself has failed
UploadFailed == \E i \in DOMAIN calls :
                   ~calls[i].ok /\ calls[i].op # "abort_multipart_upload"
PartBodies(ps) == [i \in DOMAIN ps |-> s3.partBodies[ps[i].PartNumber].Body]
\* the content of the object the export has produced
Uploaded ==
    IF s3.upload = "completed" THEN Concat(PartBodies(s3.completedWith))
    ELSE IF s3.objects # <<>> THEN s3.objects[Len(s3.objects)]
    ELSE <<>>
AllReceived == EventLines(received, 1, Len(received))

\* what the teardown handler assumes of one export_logs_to_s3 call
LogOutcomesSound == LogDone => log_ret \in LogOutcomes(log_group)

\* C6: once create_multipart_upload has succeeded, the export ends only after
\* the upload was completed or its abort was issued; an error leaves the export
\* only after the abort call, which is then the last storage call; a completed
\* upload is never aborted.
C6_UploadCompletedOrAborted ==
    /\ (LogDone /\ Succeeded("create_multipart_upload"))
          => (s3.upload = "completed" \/ Issued("abort_multipart_upload"))
    /\ (lpc = "raised" /\ upload_id # 0)
          => /\ Count("abort_multipart_upload") = 1
             /\ calls[Len(calls)].op = "abort_multipart_upload"
    /\ Issued("abort_multipart_upload")
          => (s3.upload # "completed" /\ UploadFailed /\ lpc = "raised")
    /\ (upload_id # 0) = Succeeded("create_multipart_upload")

C6_Witness ==
    /\ lpc = "raised"
    /\ Succeeded("upload_part")
    /\ Issued("abort_multipart_upload")

\* C7: an export whose buffer never reached the part size inside the loop makes
\* exactly one put_object call and no multipart call; one whose buffer reached
\* it starts with create_multipart_upload, records every uploaded part, never
\* mixes the two paths once the upload exists, is completed with exactly the
\* uploaded parts when it returns, and does return when no storage call fails.
C7_PathSelection ==
    /\ (LogDone /\ log_group # "" /\ ~lh.reached)
          => /\ Count("put_object") = 1
             /\ \A op \in MultipartOps : ~Issued(op)
    /\ lh.reached
          => /\ calls # <<>>
             /\ calls[1].op = "create_multipart_upload"
    /\ upload_id # 0
          => /\ ~Issued("put_object")
             /\ Len(parts) = Len(s3.partBodies)
             /\ Len(parts) = Cardinality({i \in DOMAIN calls :
                                             calls[i] = Call("upload_part", TRUE)})
    /\ (log_ret = "uri" /\ upload_id # 0)
          => /\ s3.upload = "completed"
             /\ s3.completedWith = parts
             /\ parts # <<>>
    /\ (LogDone /\ lh.reached /\ ~UploadFailed)
          => (log_ret = "uri" /\ s3.upload = "completed")

C7_Witness ==
    /\ log_ret = "uri"
    /\ s3.upload = "completed"
    /\ Len(s3.completedWith) >= 2
    /\ lh.caught = "none"

\* C8: after a failed filter_log_events call the diagnostic line is in the
\* buffer; if no storage call fails the export returns a location, and whenever
\* it returns one the object holds the header, every event received and the
\* diagnostic line; no uploaded object or part is empty.
C8_QueryFailureStillUploads ==
    /\ (lh.caught = "query" /\ lpc = "final")
          => (buffer # <<>> /\ buffer[Len(buffer)] = Diag)
    /\ (lh.caught = "query" /\ LogDone /\ ~UploadFailed) => log_ret = "uri"
    /\ (lh.caught = "query" /\ log_ret = "uri")
          => Uploaded = <<Header>> \o AllReceived \o <<Diag>>
    /\ log_ret = "uri" => Uploaded # <<>>
    /\ \A i \in DOMAIN s3.partBodies : s3.partBodies[i].Body # <<>>
    /\ \A i \in DOMAIN s3.objects : s3.objects[i] # <<>>

C8_Witness ==
    /\ lh.caught = "query"
    /\ lh.pages >= 1
    /\ received # <<>>
    /\ log_ret = "uri"
    /\ s3.upload = "completed"

\* C9 as stated: a query failure while an upload is open ends with the upload
\* aborted.
C9_AbortedOnQueryFailure ==
    (LogDone /\ lh.caught = "query" /\ lh.openAtFailure)
        => Issued("abort_multipart_upload")

\* C9 amended: a query failure while an upload is open does not abort it: the
\* rest of the buffer and the diagnostic line go out as the last part and the
\* upload is completed; it is aborted exactly when that last upload_part or the
\* complete call fails.
C9_CompletedUnlessUploadFails ==
    (LogDone /\ lh.caught = "query" /\ lh.openAtFailure)
        => /\ Issued("abort_multipart_upload") = UploadFailed
           /\ ~UploadFailed
                 => /\ s3.upload = "completed"
                    /\ log_ret = "uri"
                    /\ LET last == s3.completedWith[Len(s3.completedWith)]
                           body == s3.partBodies[last.PartNumber].Body
                       IN body[Len(body)] = Diag

C9_Witness ==
    /\ LogDone
    /\ lh.caught = "query"
    /\ lh.openAtFailure
    /\ s3.upload = "completed"

----------------------------------------------------------------------------
(* The two paginated loops, each run to its end.  The interpreter executes *)
(* the next statement of a running function, and a service call returns or *)
(* raises: weak fairness of the next step.                                 *)

InitPaging ==
    \/ /\ LogIdle /\ HandlerIdle /\ SchedIdle
       /\ MetricIdle /\ VerifyIdle /\ CronIdle
       /\ lm_pc = "call" /\ lm_token = NoToken /\ lm_metrics = <<>>
       /\ lm_response = [Metrics |-> <<>>, NextToken |-> NoToken]
       /\ lm_filter \in {{}, {"m1"}} /\ lm_seen = 0
    \/ /\ InitLog /\ log_group = "lg"

NextPaging ==
    \/ ListMetricsCall
    \/ ListMetricsPage
    \/ LogEnter
    \/ FilterLogEvents
    \/ ProcessEvent
    \/ CheckToken
    \/ FinalFlush
    \/ CompleteUpload
    \/ AbortUpload
    \/ PutObject

LiveSpecPaging == InitPaging /\ [][NextPaging]_vars /\ WF_vars(NextPaging)

ListExited == lm_pc \in {"done", "raised"}
LogLoopExited == lpc \in {"final", "complete", "abort", "returned", "raised"}
AtLogTokenTest == lpc = "events" /\ ev_i > Len(response.events)

\* C10 as stated: whatever tokens the backend returns, the loop that runs
\* eventually exits.
C10_LoopsAlwaysExit == <>(ListExited \/ LogLoopExited)

\* C10 amended: the log-event loop leaves at exactly the first response whose
\* token is empty or equal to the token sent, the metric-listing loop at exactly
\* the first response without a token, and each loop exits once the backend
\* returns such a response.
C10_LoopsExitOnExhaustedToken ==
    /\ [][/\ lm_pc = "page"
             => ((lm_pc' = "done") = (lm_response.NextToken = NoToken))
          /\ AtLogTokenTest
             => ((lpc' = "final") =
                   (response.nextToken = NoToken \/ response.nextToken = next_token))
          /\ (AtLogTokenTest /\ lpc' = "query") => next_token' = response.nextToken
         ]_vars
    /\ (lm_pc = "page" /\ lm_response.NextToken = NoToken) ~> ListExited
    /\ (lpc = "events" /\ response.nextToken \in {NoToken, next_token}) ~> LogLoopExited

C10_Witness ==
    /\ lpc = "final"
    /\ lh.stopped = "same"
    /\ lh.pages >= 2
    /\ lh.caught = "none"

----------------------------------------------------------------------------
(* Teardown handler: the calls it has issued.                              *)

HCount(op) == Cardinality({i \in DOMAIN hcalls : hcalls[i].op = op})
HOk(op) == \E i \in DOMAIN hcalls : hcalls[i].op = op /\ hcalls[i].ok
HandlerEnded == hpc \in {"returned", "raised"}
UpdateOp == "ecs.update_service"
DeleteOp == "elasticache.delete_replication_group"
SourceIndex(name) == CHOOSE i \in DOMAIN LogSources : LogSources[i] = name
\* position of a call in the order of the handler's text
Rank(c) ==
    CASE c.op = UpdateOp -> 1
      [] c.op = DeleteOp -> 2
      [] c.op = "export_elasticache_metrics_to_s3" -> 3
      [] c.op = "export_ecs_metrics_to_s3" -> 4
      [] c.op = "export_logs_to_s3" -> 4 + SourceIndex(c.arg)
      [] c.op = "ses.send_email" -> 5 + Len(LogSources)

\* C1: whatever update_service did, delete_replication_group is called exactly
\* once; each result field holds "True" or the error text of its own call only;
\* the handler never ends between the two teardown calls and the exports: the
\* cache metric export is started after every combination of outcomes, and the
\* log exports are started whenever both metric exports returned.
C1_TeardownStepsIsolated ==
    /\ HCount(UpdateOp) <= 1 /\ HCount(DeleteOp) <= 1
    /\ (HCount(UpdateOp) = 1 /\ hpc # "cache_delete") => HCount(DeleteOp) = 1
    /\ (HandlerEnded /\ hcfg.env_ok) => HCount(DeleteOp) = 1
    /\ HCount(UpdateOp) = 1
          => results.ecs_stopped = IF HOk(UpdateOp) THEN "True" ELSE ErrText(UpdateOp)
    /\ HCount(DeleteOp) = 1
          => results.elasticache_stopped =
                IF HOk(DeleteOp) THEN "True" ELSE ErrText(DeleteOp)
    /\ (HCount(DeleteOp) = 1 /\ hpc # "cache_metrics")
          => HCount("export_elasticache_metrics_to_s3") = 1
    /\ (HandlerEnded /\ HOk("export_elasticache_metrics_to_s3")
                     /\ HOk("export_ecs_metrics_to_s3"))
          => HCount("export_logs_to_s3") >= 1

C1_Witness ==
    /\ hpc = "returned"
    /\ HCount(UpdateOp) = 1 /\ ~HOk(UpdateOp)
    /\ results.ecs_stopped = ErrText(UpdateOp)
    /\ results.elasticache_stopped = "True"
    /\ HCount("export_logs_to_s3") = Len(LogSources)

\* C2: the calls are issued in the order update_service, delete_replication_group,
\* cache metric export, compute metric export, the log exports in the order of
\* their sources, send_email; an export is issued only after both teardown
\* calls, and the notification step is reached only after all six exports
\* have returned.
C2_CallOrder ==
    /\ \A i, j \in DOMAIN hcalls : i < j => Rank(hcalls[i]) < Rank(hcalls[j])
    /\ \A i \in DOMAIN hcalls :
          Rank(hcalls[i]) >= 3
             => (i >= 3 /\ hcalls[1].op = UpdateOp /\ hcalls[2].op = DeleteOp)
    /\ (hpc \in {"notify", "return", "returned"} \/ HCount("ses.send_email") > 0)
          => /\ Len(hcalls) >= 4 + Len(LogSources)
             /\ \A i \in 3..(4 + Len(LogSources)) : Rank(hcalls[i]) = i /\ hcalls[i].ok

C2_Witness ==
    /\ hpc = "returned"
    /\ Len(hcalls) = 5 + Len(LogSources)
    /\ hcalls[Len(hcalls)].op = "ses.send_email"

----------------------------------------------------------------------------
(* Scheduler: the invocation recorded in sched.                            *)

Invoked == sched.result # "none"
SReturned(op) == \E i \in DOMAIN sched.calls :
                    sched.calls[i].op = op /\ sched.calls[i].ok
SIssued(op) == \E i \in DOMAIN sched.calls : sched.calls[i].op = op
SFailed == \E i \in DOMAIN sched.calls : ~sched.calls[i].ok
\* the service as the describe_services response shows it
Running(resp) == resp.found /\ resp.desiredCount >= 1 /\ resp.runningCount >= 1
NotRunning(resp) == ~resp.found \/ resp.runningCount = 0 \/ resp.desiredCount = 0
\* the six fields _cron_at writes for a datetime
Rendering(dt) ==
    <<Str(dt.minute), Str(dt.hour), Str(dt.day), Str(dt.month), <<"?">>, Str(dt.year)>>

\* C3: with the service running, an invocation that reads an expression other
\* than the placeholder whose time is more than one minute after now issues no
\* put_rule, leaves the rule as it was and returns already_scheduled; one that
\* reads the placeholder issues put_rule on the shutdown rule with the cron
\* rendering of now + TEST_DURATION_MINUTES, and returns scheduled unless a
\* call raises.
C3_ScheduleDecision ==
    (Invoked /\ Running(sched.resp) /\ SReturned("ecs.describe_services")
             /\ SReturned("events.describe_rule"))
    => LET parsed == ParseCronExpression(sched.seen) IN
       /\ (sched.seen # Placeholder /\ parsed.ok
             /\ DtLess(AddMinutes(sched.at, 1), parsed.dt))
            => /\ sched.result = "already_scheduled"
               /\ ~SIssued("events.put_rule")
               /\ rules.shutdown = sched.seen
               /\ rules.verify = sched.seen_verify
       /\ sched.seen = Placeholder
            => /\ Len(sched.calls) >= 3
               /\ sched.calls[3].op = "events.put_rule"
               /\ sched.calls[3].name = "shutdown"
               /\ sched.calls[3].expr =
                     Cron(Rendering(AddMinutes(sched.at, scfg.duration_minutes)))
               /\ sched.calls[3].ok => rules.shutdown = sched.calls[3].expr
               /\ sched.result = IF SFailed THEN "raised" ELSE "scheduled"

C3_Witness ==
    /\ sched.seen = Placeholder
    /\ sched.at = Dt(2098, 12, 31, 23, 58, 30)
    /\ scfg.duration_minutes = 3
    /\ sched.result = "scheduled"
    /\ rules.shutdown = Cron(<<IntField(1), IntField(0), IntField(1), IntField(1),
                               QuestionMark, IntField(2099)>>)

C5_NotRunningSkipsScheduling ==
    (Invoked /\ SReturned("ecs.describe_services") /\ NotRunning(sched.resp))
    => /\ Len(sched.calls) = 1
       /\ ~SIssued("events.describe_rule")
       /\ ~SIssued("events.put_rule")
       /\ ~SIssued("ses.send_email")
       /\ rules.shutdown = sched.seen
       /\ rules.verify = sched.seen_verify
       /\ sched.result = IF sched.resp.found THEN "not_running" ELSE "service_not_found"

C5_Witness ==
    /\ Invoked
    /\ sched.resp.found
    /\ sched.resp.desiredCount = 1
    /\ sched.resp.runningCount = 0
    /\ sched.result = "not_running"
    /\ sched.seen = Placeholder
    /\ scfg.notify = "ok"

----------------------------------------------------------------------------
(* The cron dialect.                                                       *)

\* the datetime a finished run was about
CronSubject == IF c_in.defect = "datetime" THEN c_in.dt ELSE c_out.parsed.dt
CronRoundTripDone == cpc = "done" /\ (c_in.defect = "datetime" \/ c_out.parsed.ok)

\* C18: for every whole-minute instant t, given as a datetime or denoted by a
\* valid expression, parsing the text _cron_at writes for t returns exactly t;
\* the text has the six fields minute, hour, day, month, "?", year.
C18_CronRoundTrip ==
    CronRoundTripDone
        => /\ c_out.reparsed = Some(CronSubject)
           /\ Split(SubSeq(c_out.text, 6, Len(c_out.text) - 1))
                 = Rendering(CronSubject)

C18_Witness ==
    /\ cpc = "done"
    /\ c_in.defect = "datetime"
    /\ c_in.dt = Dt(2024, 2, 29, 9, 10, 0)
    /\ c_out.text = <<"c", "r", "o", "n", "(", "1", "0", " ", "9", " ", "2", "9",
                      " ", "2", " ", "?", " ", "2", "0", "2", "4", ")">>
    /\ c_out.reparsed.ok

\* the expressions the claim calls malformed
Malformed == {"field_count", "day_of_week", "non_integer", "out_of_range"}
MalformedRules == WrongFieldCount \cup WrongDayOfWeek \cup NonIntegerField \cup OutOfRange

\* C19: on a text with a wrong field count, a day-of-week other than "?", a
\* field that is not an integer or a value outside the calendar, the parser
\* returns None and does not raise; a scheduler invocation that reads such a
\* rule for a running service does not fail in the parser and goes on to
\* put_rule, as for an unscheduled rule.
C19_ParserRejectsWithoutRaising ==
    /\ (cpc = "done" /\ c_in.defect \in Malformed) => c_out.parsed = None
    /\ (cpc = "idle" /\ Invoked /\ Running(sched.resp)
          /\ SReturned("ecs.describe_services") /\ SReturned("events.describe_rule")
          /\ sched.seen \in MalformedRules)
         => SIssued("events.put_rule")

----------------------------------------------------------------------------
(* Metric export: the series discovered, fetched and written.              *)

MDone == mpc \in {"returned", "raised"}
FetchPhaseOver == mpc \in {"put", "returned", "raised"}
MCallsOf(op) == {i \in DOMAIN mcalls : mcalls[i].op = op}
ListCalls == MCallsOf("cloudwatch.list_metrics")
FetchCalls == MCallsOf("cloudwatch.get_metric_statistics")
PutCalls == MCallsOf("s3.put_object")
\* a series: namespace, metric name and the set of its dimension pairs
SeriesOf(namespace, metric_name, dimensions) ==
    <<namespace, metric_name,
      {<<dimensions[j].Name, dimensions[j].Value>> : j \in DOMAIN dimensions}>>
ListedBy(i) ==
    {SeriesOf(sources[mcalls[i].src].namespace, mcalls[i].metrics[j].MetricName,
              mcalls[i].metrics[j].Dimensions) : j \in DOMAIN mcalls[i].metrics}
Discovered == UNION {ListedBy(i) : i \in ListCalls}
FetchedSeries(i) ==
    SeriesOf(mcalls[i].namespace, mcalls[i].metric_name, mcalls[i].dimensions)
Fetches(series) == {i \in FetchCalls : FetchedSeries(i) = series}
RowSeries(row) ==
    <<row.namespace, row.metric_name,
      {row.dimensions_str[j] : j \in DOMAIN row.dimensions_str}>>
\* the rows of a series for one timestamp and statistic, among rows
RowsFor(rows, series, ts, stat) ==
    {k \in DOMAIN rows : /\ RowSeries(rows[k]) = series
                         /\ rows[k].ts = ts
                         /\ rows[k].stat = stat}
\* every statistic of every datapoint a successful fetch returned has exactly
\* one row, with its value, and there is no other row
RowsMatchFetches(rows) ==
    /\ \A i \in FetchCalls :
          \A j \in DOMAIN mcalls[i].datapoints :
             \A stat \in DOMAIN mcalls[i].datapoints[j].values :
                LET dp == mcalls[i].datapoints[j]
                    ks == RowsFor(rows, FetchedSeries(i), dp.Timestamp, stat)
                IN /\ Cardinality(ks) = 1
                   /\ \A k \in ks : rows[k].value = dp.values[stat]
    /\ \A k \in DOMAIN rows :
          \E i \in FetchCalls :
             /\ mcalls[i].ok
             /\ FetchedSeries(i) = RowSeries(rows[k])
             /\ \E j \in DOMAIN mcalls[i].datapoints :
                   /\ mcalls[i].datapoints[j].Timestamp = rows[k].ts
                   /\ rows[k].stat \in DOMAIN mcalls[i].datapoints[j].values

\* C11: a series is fetched at most once, and exactly once when the loop over
\* the map has ended, however many sources listed it and in whatever order
\* they listed its dimensions; only listed series are fetched, one fetch per
\* distinct series; each statistic of each datapoint returned for a series has
\* exactly one row, under that series.
C11_SeriesFetchedOnce ==
    /\ \A series \in Discovered : Cardinality(Fetches(series)) <= 1
    /\ FetchPhaseOver => \A series \in Discovered : Cardinality(Fetches(series)) = 1
    /\ \A i \in FetchCalls : FetchedSeries(i) \in Discovered
    /\ FetchPhaseOver => Cardinality(FetchCalls) = Cardinality(Discovered)
    /\ RowsMatchFetches(csv_rows)

C11_Witness ==
    /\ mpc = "returned"
    /\ \E i, j \in ListCalls :
          /\ i # j
          /\ \E a \in DOMAIN mcalls[i].metrics, b \in DOMAIN mcalls[j].metrics :
                /\ mcalls[i].metrics[a].MetricName = mcalls[j].metrics[b].MetricName
                /\ Len(mcalls[i].metrics[a].Dimensions) = 2
                /\ mcalls[i].metrics[a].Dimensions # mcalls[j].metrics[b].Dimensions
                /\ ListedBy(i) = ListedBy(j)
    /\ Cardinality(FetchCalls) = 1
    /\ Len(csv_rows) = 6

\* C12: the export ends by raising only when its put_object fails; every
\* source is listed, one call each and in order, whatever the earlier listings
\* did; every series listed is fetched whatever the earlier fetches did; a
\* finished export has issued exactly one put_object, as its last call, whose
\* body is the header row followed by exactly the rows of the fetches that
\* succeeded, and nothing but the header row when no series was listed or no
\* datapoint returned; it returns the location when that put_object succeeds.
C12_ExportSurvivesFailures ==
    /\ mpc = "raised"
          => /\ mcalls[Len(mcalls)].op = "s3.put_object"
             /\ ~mcalls[Len(mcalls)].ok
    /\ mpc \in {"fetch", "put", "returned", "raised"}
          => /\ Cardinality(ListCalls) = Len(sources)
             /\ \A i, j \in ListCalls : i < j => mcalls[i].src < mcalls[j].src
    /\ FetchPhaseOver => \A series \in Discovered : Fetches(series) # {}
    /\ mpc \in {"list", "describe", "fetch", "put"} => PutCalls = {}
    /\ MDone
          => /\ PutCalls = {Len(mcalls)}
             /\ LET put == mcalls[Len(mcalls)] IN
                /\ put.body[1] = HeaderRow
                /\ RowsMatchFetches(Tail(put.body))
                /\ (Discovered = {} \/ \A i \in FetchCalls : mcalls[i].datapoints = <<>>)
                      => put.body = <<HeaderRow>>
                /\ put.ok = (m_ret = "uri")
                /\ put.ok = (mpc = "returned")

C12_Witness ==
    /\ mpc = "returned"
    /\ \E i \in ListCalls : ~mcalls[i].ok
    /\ \E i \in FetchCalls : ~mcalls[i].ok
    /\ \E i \in FetchCalls : mcalls[i].ok /\ mcalls[i].datapoints # <<>>
    /\ Len(mcalls[Len(mcalls)].body) > 1

----------------------------------------------------------------------------
(* Verifier: classification and notifications.                             *)

CacheClassified == vpc \in {"warn_ecs", "warn_elasticache", "success", "return",
                            "returned", "raised"} /\ vcfg.env_ok
EcsClassified == vpc = "elasticache" \/ CacheClassified
\* the describe call reports that the replication group does not exist
ReportsNotFound(outcome) ==
    \/ outcome.raised = "ReplicationGroupNotFoundFault"
    \/ outcome.raised = "no" /\ outcome.groups = <<>>

\* C13: the cache is classified not running exactly when the describe call
\* raised ReplicationGroupNotFoundFault or returned no replication group; a
\* returned group is running in every state, also with no Status, and every
\* other exception is running.
C13_CacheNotRunningOnlyIfNotFound ==
    CacheClassified
        => /\ ~vres.elasticache_is_running = ReportsNotFound(vres.cache_outcome)
           /\ vres.cache_outcome.groups # <<>> => vres.elasticache_is_running
           /\ vres.cache_outcome.raised = "other"
                 => /\ vres.elasticache_is_running
                    /\ vres.elasticache_detail = <<"describe_failed">>

C13_Witness ==
    /\ vpc = "returned"
    /\ vres.cache_outcome.groups # <<>>
    /\ vres.cache_outcome.groups[1].Status = "deleting"
    /\ vres.elasticache_is_running
    /\ ~vres.ecs_is_running

\* C14: a describe_services call that raised is classified running; the
\* service is classified not running exactly when the call returned and the
\* response has no service or a service whose running count is absent or 0.
C14_EcsFailSafe ==
    EcsClassified
        => /\ vres.ecs_outcome.raised => vres.ecs_is_running
           /\ ~vres.ecs_is_running
                 = /\ ~vres.ecs_outcome.raised
                   /\ \/ vres.ecs_outcome.services = <<>>
                      \/ "runningCount" \notin vres.ecs_outcome.services[1].keys
                      \/ vres.ecs_outcome.services[1].runningCount = 0

C14_Witness ==
    /\ vpc = "returned"
    /\ vres.ecs_outcome.raised
    /\ vres.ecs_is_running
    /\ vres.ecs_detail = <<"describe_failed">>
    /\ ~vres.elasticache_is_running

VerifyEnded == vpc \in {"returned", "raised"} /\ vcfg.env_ok
Sends(subject) == {i \in DOMAIN vcalls : /\ vcalls[i].op = "ses.send_email"
                                         /\ vcalls[i].subject = subject}
EcsWarnings == Sends("ECS tasks still running")
CacheWarnings == Sends("ElastiCache still running")
SuccessMessages == Sends("All resources shut down")
VSendFailed == \E i \in DOMAIN vcalls : /\ vcalls[i].op = "ses.send_email"
                                        /\ ~vcalls[i].ok

\* C15: in a finished verify invocation with notifications configured, the
\* success message is sent exactly when both resources are classified not
\* running, one warning is sent for each resource classified running, and a
\* success message never comes with a warning.
C15_VerifierNotifications ==
    VerifyEnded /\ vcfg.notify = "ok"
        => /\ Cardinality(SuccessMessages)
                 = IF ~vres.ecs_is_running /\ ~vres.elasticache_is_running
                   THEN 1 ELSE 0
           /\ Cardinality(EcsWarnings) = IF vres.ecs_is_running THEN 1 ELSE 0
           /\ Cardinality(CacheWarnings)
                 = IF vres.elasticache_is_running THEN 1 ELSE 0
           /\ SuccessMessages # {} => EcsWarnings \cup CacheWarnings = {}

\* the same statement for the invocations in which every send_email returned
C15_HoldsWhenDelivered == VSendFailed \/ C15_VerifierNotifications

----------------------------------------------------------------------------
(* The three handlers that notify, side by side.                           *)

InitNotify == InitTeardown \/ InitSched \/ InitVerify

NextNotify ==
    \/ NextTeardown
    \/ (hpc = "idle" /\ vpc = "idle" /\ Invoke)
    \/ (hpc = "idle" /\ vpc = "idle" /\ Tick)
    \/ NextVerify

SpecNotify == InitNotify /\ [][NextNotify]_vars

HSendFailed == \E i \in DOMAIN hcalls : /\ hcalls[i].op = "ses.send_email"
                                        /\ ~hcalls[i].ok
SSendFailed == \E i \in DOMAIN sched.calls : /\ sched.calls[i].op = "ses.send_email"
                                             /\ ~sched.calls[i].ok

\* C16: a send_email call that raised does not make the invocation fail: the
\* teardown handler records notification_sent = False and returns, the
\* scheduler returns its "scheduled" result, the verifier goes on to its
\* remaining steps and returns.
C16_NotificationFailureNonFatal ==
    /\ hpc # "idle" /\ HSendFailed
          => /\ hpc \in {"return", "returned"}
             /\ results.notification_sent = "False"
    /\ hpc = "idle" /\ vpc = "idle" /\ SSendFailed => sched.result = "scheduled"
    /\ vpc # "idle" /\ VSendFailed => vpc # "raised"

\* the part of C16 about the teardown handler
C16_TeardownRecordsFalse ==
    hpc # "idle" /\ HSendFailed
        => /\ hpc \in {"return", "returned"}
           /\ results.notification_sent = "False"

----------------------------------------------------------------------------
(* The teardown handler with the exports it calls, side by side.           *)

InitExports == InitTeardown \/ InitMetrics \/ InitLog

NextExports ==
    \/ NextTeardown
    \/ NextMetrics
    \/ NextLog

SpecExports == InitExports /\ [][NextExports]_vars

MultipartFailed == \E i \in DOMAIN calls : /\ ~calls[i].ok
                                           /\ calls[i].op \in MultipartOps
LastHCall == hcalls[Len(hcalls)]

\* C17: after the teardown has begun an error reaches the caller only from an
\* unrecovered multipart upload error: the metric export never raises, the
\* log export raises only after a failed multipart call, and the handler
\* raises only out of a log export.
C17_OnlyMultipartErrorsSurface ==
    /\ mpc # "raised"
    /\ lpc = "raised" => MultipartFailed
    /\ hpc = "raised" /\ hcfg.env_ok
          => /\ hcalls # <<>>
             /\ LastHCall.op = "export_logs_to_s3"

\* the part of C17 that the code keeps: the two teardown actions are isolated
C17_TeardownActionsIsolated ==
    hpc = "raised" /\ hcfg.env_ok
        => /\ hcalls # <<>>
           /\ LastHCall.op \notin {UpdateOp, DeleteOp, "ses.send_email"}

NothingStored == [upload |-> "none", partBodies |-> <<>>, completedWith |-> <<>>,
                  objects |-> <<>>]
ExportCalls(i) == {j \in DOMAIN hcalls : /\ hcalls[j].op = "export_logs_to_s3"
                                         /\ hcalls[j].arg = LogSources[i]}

\* C20: export_logs_to_s3 with an empty log group returns None and has issued
\* no call: no filter_log_events, no put_object, no multipart call; in the
\* handler the export of a source without log group yields None and the
\* handler goes on to the next source, so that a run that returns has called
\* the export of every source.
C20_EmptySourceExportsNothing ==
    /\ lpc \notin {"idle", "start"} /\ log_group = ""
          => /\ lpc = "returned" /\ log_ret = "None"
             /\ calls = <<>> /\ received = <<>> /\ lh.pages = 0
             /\ s3 = NothingStored /\ buffer = <<>> /\ upload_id = 0
    /\ LogOutcomesSound
    /\ hpc \in {"logs", "notify", "raised"} /\ hcalls # <<>>
          /\ LastHCall.op = "export_logs_to_s3"
          => LET i == SourceIndex(LastHCall.arg) IN
             hcfg.log_groups[i] = ""
                => /\ LastHCall.ok
                   /\ results.log_exports[i] = "None"
                   /\ hpc = IF i = Len(LogSources) THEN "notify" ELSE "logs"
    /\ hpc = "returned"
          => \A i \in DOMAIN LogSources :
                /\ Cardinality(ExportCalls(i)) = 1
                /\ hcfg.log_groups[i] = "" => results.log_exports[i] = "None"

C20_Witness ==
    /\ hpc = "returned"
    /\ hcfg.log_groups[1] = "" /\ hcfg.log_groups[2] = "lg"
    /\ hcfg.log_groups[3] = "" /\ hcfg.log_groups[4] = "lg"
    /\ results.log_exports = <<"None", "uri", "None", "uri">>

\* the export itself, entered without a log group, has returned
C20_ExportReturnedNone ==
    lpc = "returned" /\ log_group = "" /\ log_ret = "None" /\ calls = <<>>

----------------------------------------------------------------------------
(* Log export: the buffer, the parts and the content.                      *)

InLogLoop == lpc \in {"query", "events"}
LargestLine == CHOOSE n \in EventSizes : \A m \in EventSizes : m <= n

\* C21: inside the pagination loop, before each filter_log_events call and
\* before each event, the buffer is shorter than LOG_EXPORT_PART_SIZE; the
\* longest the buffer has been inside the loop (lh.peak, taken after each
\* line is appended and before the flush) is at most the part size plus one
\* line.
C21_BufferBounded ==
    /\ InLogLoop => BufLen(buffer) < LOG_EXPORT_PART_SIZE
    /\ lh.peak < LOG_EXPORT_PART_SIZE + LargestLine

C21_Witness ==
    /\ lpc = "events"
    /\ lh.pages >= 2
    /\ lh.peak > LOG_EXPORT_PART_SIZE
    /\ Len(parts) >= 2
    /\ buffer # <<>>

PartUploads == {i \in DOMAIN calls : calls[i] = Call("upload_part", TRUE)}

\* C22: the recorded parts are numbered 1..n in upload order, one for each
\* upload_part call that returned and none for one that raised, and the store
\* holds the same parts; complete_multipart_upload is called at most once,
\* never with an empty part list, and a completed upload consists of the
\* recorded parts; an export that calls put_object has no multipart upload:
\* no create call returned and no part, complete or abort call was made.
C22_PartBookkeeping ==
    /\ \A i \in DOMAIN parts : parts[i].PartNumber = i
    /\ Len(parts) = Cardinality(PartUploads)
    /\ part_number = Len(parts) + 1
    /\ Len(s3.partBodies) = Len(parts)
    /\ \A i \in DOMAIN parts : s3.partBodies[i].PartNumber = i
    /\ Count("complete_multipart_upload") <= 1
    /\ (lpc = "complete" \/ Issued("complete_multipart_upload")) => parts # <<>>
    /\ s3.upload = "completed" => s3.completedWith = parts
    /\ Issued("put_object")
          => /\ ~Succeeded("create_multipart_upload")
             /\ upload_id = 0 /\ parts = <<>>
             /\ \A op \in MultipartOps \ {"create_multipart_upload"} : ~Issued(op)

C22_Witness ==
    /\ lpc = "returned"
    /\ s3.upload = "completed"
    /\ Len(s3.completedWith) >= 2
    /\ \E i \in DOMAIN calls : calls[i] = Call("upload_part", FALSE)

DiagIfCaught == IF lh.caught # "none" THEN <<Diag>> ELSE <<>>
\* the events the loop has appended to the buffer: on a storage failure the
\* event being processed is the last one, the rest of its page is left out
Processed ==
    Len(received) - Len(response.events)
        + (IF lh.caught = "storage" THEN ev_i ELSE ev_i - 1)

\* C23: an export that returns its location has uploaded the header line,
\* then the line of every event received from filter_log_events, in the
\* order received, then the diagnostic line if a failure was caught.
C23_ContentPreserved ==
    log_ret = "uri"
        => Uploaded = <<Header>> \o AllReceived \o DiagIfCaught

\* what the code keeps: the uploaded content is the header, the events the
\* loop has processed, once each and in order, and the diagnostic line
C23_ProcessedPreserved ==
    log_ret = "uri"
        => Uploaded = <<Header>> \o EventLines(received, 1, Processed) \o DiagIfCaught

\* the same statement as C23 for the exports in which no storage call failed
\* inside the loop
C23_HoldsWithoutStorageFailure ==
    lh.caught = "storage" \/ C23_ContentPreserved

\* an export that returned although events it had received were left out
C23_EventsLeftOut ==
    /\ log_ret = "uri"
    /\ lh.caught = "storage"
    /\ Processed < Len(received)

----------------------------------------------------------------------------
(* Scheduler: the shutdown rule and the verify rule.                       *)

PutRules(name) == {i \in DOMAIN sched.calls : /\ sched.calls[i].op = "events.put_rule"
                                              /\ sched.calls[i].name = name}
\* the verify time of the invocation that armed the shutdown rule
VerifyMinute == AddMinutes(sh.armed_minute, VERIFY_EXTRA_MINUTES)

\* C24: with a verify rule name configured, whenever the shutdown rule holds a
\* time after now that an invocation has written, the verify rule holds the
\* verify time of that invocation; without a verify rule name an invocation
\* that writes the shutdown rule writes no other rule and, no call having
\* failed, returns "scheduled".
C24_RulesArmedTogether ==
    /\ (scfg.verify_rule_name # "" /\ sh.armed /\ DtLess(now, sh.armed_minute))
          => /\ rules.shutdown = CronAt(sh.armed_minute)
             /\ rules.verify = CronAt(VerifyMinute)
    /\ (scfg.verify_rule_name = "" /\ Invoked /\ PutRules("shutdown") # {})
          => /\ PutRules("verify") = {}
             /\ rules.verify = sched.seen_verify
             /\ ~SFailed => sched.result = "scheduled"

\* what the code keeps: an invocation that returns "scheduled" has written
\* both rules, or the shutdown rule alone when no verify rule name is
\* configured
C24_ScheduledArmsBoth ==
    (Invoked /\ sched.result = "scheduled")
        => /\ rules.shutdown = CronAt(AddMinutes(sched.at, scfg.duration_minutes))
           /\ rules.verify =
                 IF scfg.verify_rule_name # ""
                 THEN CronAt(AddMinutes(sched.at, scfg.duration_minutes
                                                     + VERIFY_EXTRA_MINUTES))
                 ELSE sched.seen_verify

\* the shutdown rule armed by an invocation whose verify put_rule raised
C24_ShutdownArmedAlone ==
    /\ scfg.verify_rule_name # ""
    /\ Invoked /\ sched.result = "raised"
    /\ \E i \in PutRules("verify") : ~sched.calls[i].ok
    /\ sh.armed /\ DtLess(now, sh.armed_minute)
    /\ rules.shutdown = CronAt(sh.armed_minute)
    /\ rules.verify = Placeholder

====
